---------------------------- MODULE Spec2Model ----------------------------
(* A model of src/bot.py: the orders workbook (RecordStore) kept by        *)
(* Database, the edit-lock policy is_date_locked, the start-up code that   *)
(* creates or grows the orders workbook, and the handlers of FoodBot that  *)
(* read and write it for the users.                                        *)
(*                                                                         *)
(* Workbooks are modelled cell by cell, the way openpyxl holds them: a     *)
(* sheet is a sequence of rows, a row a sequence of cells, and the         *)
(* sheet's max_row / max_column are the largest indices that hold a cell   *)
(* object.  Strings are TLA+ strings, so that Python's "x in s" is a real  *)
(* substring test.  Non-ASCII literals of the source are transliterated.   *)
(*                                                                         *)
(* Eight specifications share the variables:                               *)
(*   Spec          the Database API under process restarts, changes of     *)
(*                 the data directory between restarts, direct calls of    *)
(*                 save_order, and the clock;                              *)
(*   SpecBot       the running bot: the users' updates wait in a queue and *)
(*                 are handled one at a time, each handler running from    *)
(*                 its first statement after "await query.answer()" to its *)
(*                 file write without a suspension point, while the clock  *)
(*                 advances;                                               *)
(*   SpecLock      is_date_locked called at every minute of the calendar   *)
(*                 (SpecLockFair: with a clock that never stops);          *)
(*   SpecQuery     one run of the process on a fresh orders file: writes,  *)
(*                 and the queries get_student_orders and count_for_date;  *)
(*   SpecTemplate  TemplateManager on template files of several layouts:   *)
(*                 load_template, find_student and update_order;           *)
(*   SpecReload    TemplateManager while the template file is replaced     *)
(*                 under it;                                               *)
(*   SpecReminder  the ReminderManager: subscriptions and their file;      *)
(*   SpecScan      the job send_reminders among subscriptions and writes   *)
(*                 to the orders file, around the reminder hour.           *)
EXTENDS Integers, Sequences, FiniteSets, TLC

VARIABLES
    utc,        \* datetime.utcnow(), in minutes since Monday 2024-03-04 00:00 UTC
    students,   \* data/students.xlsx: NoFile, or its data rows (row 2 onwards)
    template,   \* the template file: NoFile, or its sheets' titles and cells
    orders,     \* data/orders.xlsx: NoFile, or the cells of its active sheet
    started,    \* how many times Database() has been constructed so far
    tm,         \* Database.template_manager: its workbook and its structure
    calls,      \* how many Database calls have been made (bounded)
    last        \* the last call or handled update of this run: its arguments,
                \* its result, and what held when it was made
VARIABLES
    user_sessions,  \* FoodBot.user_sessions, per Telegram user
    conv,           \* the ConversationHandler's state, per Telegram user
    screen,         \* the keyboard of the last message the bot showed each user
    queue,          \* the updates received and not yet handled, oldest first
    sent            \* how many updates the users have sent (bounded)

VARIABLES
    reminders,      \* ReminderManager.reminders: the registry in memory
    reminders_file, \* data/reminders.json: NoFile, or the text it holds
    reminded        \* the last run of send_reminders: when, whom it looked at and
                    \* sent a message, and the runs and messages of its day

vars == <<utc, students, template, orders, started, tm, calls, last,
          user_sessions, conv, screen, queue, sent,
          reminders, reminders_file, reminded>>

-----------------------------------------------------------------------------
(* Bounds of the model *)

\* The clock runs over the days 0..MaxDay (day 0 is Monday 2024-03-04).
MaxDay == 1

\* Database() is constructed at most MaxStarts times (process restarts).
MaxStarts == 2

\* At most MaxCalls Database calls are made in all.
MaxCalls == 2

\* The users send at most MaxUpdates updates in all, and at most MaxQueue
\* of them wait for their handler at any time.
MaxUpdates == 2
MaxQueue == 2

-----------------------------------------------------------------------------
(* Program constants *)

\* Config.DEADLINE_TIME = time(8, 0)
DEADLINE_HOUR == 8

\* Config.TIMEZONE_OFFSET = 2
TIMEZONE_OFFSET == 2

\* while added < 30 in _create_or_update_orders_file
FALLBACK_DAYS == 30

MinutesPerDay == 24 * 60
DEADLINE_TIME == DEADLINE_HOUR * 60

\* MealType, in declaration order
MealType == <<"breakfast", "lunch", "snack">>
Meals == {MealType[i] : i \in 1..3}

\* The marker save_order writes for an ordered meal (a check-mark emoji in the source).
CHECK == "[v]"

-----------------------------------------------------------------------------
(* Python values *)

\* A path of the data directory holds no file, or a file with some content.
NoFile == <<>>
File(content) == <<content>>
Content(file) == file[1]
\* No cell object at a position of a sheet.
Absent == "<absent>"
\* Python's None (the value of a cell that exists and holds nothing).
None == "<None>"

Max(S) == CHOOSE x \in S : \A y \in S : y <= x

\* Python's "sub in s" on strings.
Contains(s, sub) ==
    \E i \in 1..(Len(s) - Len(sub) + 1) : SubSeq(s, i, i + Len(sub) - 1) = sub

\* Python's truthiness of a cell value that is None or a string.
Truthy(v) == v # None /\ v # ""

\* str(v) of a cell value
str(v) == IF v = None THEN "None" ELSE v

\* Where a search loop that stops at its first match ends: 0 for no match.
first_of(rows) == IF rows = {} THEN 0 ELSE CHOOSE r \in rows : \A q \in rows : r <= q

\* Where a search loop that runs to the end leaves its variable: 0 for None.
last_of(cols) == IF cols = {} THEN 0 ELSE Max(cols)

\* str.strip() and str.isdigit()
RECURSIVE strip(_)
strip(s) ==
    IF Len(s) = 0 THEN s
    ELSE IF SubSeq(s, 1, 1) = " " THEN strip(SubSeq(s, 2, Len(s)))
    ELSE IF SubSeq(s, Len(s), Len(s)) = " " THEN strip(SubSeq(s, 1, Len(s) - 1))
    ELSE s

isdigit(s) ==
    /\ Len(s) > 0
    /\ \A i \in 1..Len(s) : Contains("0123456789", SubSeq(s, i, i))

\* The i-th character of a string
Char(s, i) == SubSeq(s, i, i)

\* str.startswith(prefix)
startswith(s, prefix) == Len(s) >= Len(prefix) /\ SubSeq(s, 1, Len(prefix)) = prefix

\* str.lower(), on the letters the model's names are written with
UPPERCASE == "ABCDEFGHIJKLMNOPQRSTUVWXYZ"
LOWERCASE == "abcdefghijklmnopqrstuvwxyz"

lower_char(ch) ==
    IF \E i \in 1..26 : Char(UPPERCASE, i) = ch
    THEN Char(LOWERCASE, CHOOSE i \in 1..26 : Char(UPPERCASE, i) = ch)
    ELSE ch

RECURSIVE lower(_)
lower(s) ==
    IF Len(s) = 0 THEN s ELSE lower_char(Char(s, 1)) \o lower(SubSeq(s, 2, Len(s)))

\* str.replace(old, ""): every occurrence of old removed, left to right
RECURSIVE remove(_, _)
remove(s, old) ==
    LET i == first_of({k \in 1..(Len(s) - Len(old) + 1) :
                          SubSeq(s, k, k + Len(old) - 1) = old})
    IN  IF i = 0 THEN s
        ELSE SubSeq(s, 1, i - 1) \o remove(SubSeq(s, i + Len(old), Len(s)), old)

\* A regular expression of the source, written with "d" for \d and every
\* other character for itself, matched against s from position i on.
match_at(pattern, s, i) ==
    /\ i + Len(pattern) - 1 <= Len(s)
    /\ \A k \in 1..Len(pattern) :
          IF Char(pattern, k) = "d"
          THEN Contains("0123456789", Char(s, i + k - 1))
          ELSE Char(s, i + k - 1) = Char(pattern, k)

\* re.search(pattern, s): where the first match starts, or 0 for None
re_search(pattern, s) ==
    first_of({i \in 1..(Len(s) - Len(pattern) + 1) : match_at(pattern, s, i)})

-----------------------------------------------------------------------------
(* Calendar: date.strftime("%Y-%m-%d") and datetime.strptime(s, "%Y-%m-%d") *)

DateKeys == <<"2024-03-04", "2024-03-05", "2024-03-06", "2024-03-07",
              "2024-03-08", "2024-03-09", "2024-03-10", "2024-03-11",
              "2024-03-12", "2024-03-13", "2024-03-14", "2024-03-15">>

\* The days of the model's calendar; the clock stays within 0..MaxDay.
Days == 0..MaxDay

strftime(d) == DateKeys[d + 1]

\* The day a string parses to, or -1 where strptime raises ValueError.
strptime(s) ==
    IF \E d \in 0..(Len(DateKeys) - 1) : DateKeys[d + 1] = s
    THEN CHOOSE d \in 0..(Len(DateKeys) - 1) : DateKeys[d + 1] = s
    ELSE -1

\* date.weekday(): 0 is Monday; day 0 of the model is a Monday.
weekday(d) == d % 7

-----------------------------------------------------------------------------
(* The clock and the edit-lock policy *)

get_current_datetime == utc + TIMEZONE_OFFSET * 60

DateOf(m) == m \div MinutesPerDay
TimeOf(m) == m % MinutesPerDay

\* is_date_locked with the deadline itself still open (">" for ">=")
is_date_locked_strict(target_date) ==
    LET now == get_current_datetime
        today == DateOf(now)
        current_time == TimeOf(now)
    IN  IF target_date < today THEN TRUE
        ELSE IF target_date = today /\ current_time > DEADLINE_TIME THEN TRUE
        ELSE FALSE

\* is_date_locked without its first test: a date is locked on its own day
\* from the deadline on, and not after that day
is_date_locked_today_only(target_date) ==
    LET now == get_current_datetime
        today == DateOf(now)
        current_time == TimeOf(now)
    IN  IF target_date = today /\ current_time >= DEADLINE_TIME THEN TRUE
        ELSE FALSE

\* is_date_locked without its second test: only past dates are locked
is_date_locked_past_only(target_date) ==
    LET now == get_current_datetime
        today == DateOf(now)
    IN  IF target_date < today THEN TRUE
        ELSE FALSE

is_date_locked(target_date) ==
    LET now == get_current_datetime
        today == DateOf(now)
        current_time == TimeOf(now)
    IN  IF target_date < today THEN TRUE
        ELSE IF target_date = today /\ current_time >= DEADLINE_TIME THEN TRUE
        ELSE FALSE

-----------------------------------------------------------------------------
(* openpyxl worksheets.  A cell is Absent (no cell object), None, "" or a   *)
(* string.  ws.cell(r, c) creates the cell it names; max_row and max_column *)
(* range over the cell objects that exist, whatever they hold.  A sheet is  *)
(* kept with every row ending at its last cell object and the sheet ending  *)
(* at its last row that has one, so the lengths are those maxima.           *)

\* ws.cell(r, c).value
value(ws, r, c) ==
    IF r \in 1..Len(ws) /\ c \in 1..Len(ws[r]) /\ ws[r][c] # Absent
    THEN ws[r][c]
    ELSE None

max_row(ws) == IF Len(ws) = 0 THEN 1 ELSE Len(ws)

RECURSIVE longest(_, _)
longest(ws, r) ==
    IF r > Len(ws) THEN 1 ELSE Max({Len(ws[r]), longest(ws, r + 1)})

max_column(ws) == longest(ws, 1)

PadRow(row, c) == row \o [i \in 1..(c - Len(row)) |-> Absent]
PadSheet(ws, r) == ws \o [i \in 1..(r - Len(ws)) |-> <<>>]

\* ws.cell(r, c, v) with v not None
SetCell(ws, r, c, v) ==
    [PadSheet(ws, r) EXCEPT ![r] = [PadRow(@, c) EXCEPT ![c] = v]]

RECURSIVE TrimRow(_)
TrimRow(row) ==
    IF row # <<>> /\ row[Len(row)] = Absent
    THEN TrimRow(SubSeq(row, 1, Len(row) - 1))
    ELSE row

RECURSIVE TrimSheet(_)
TrimSheet(ws) ==
    IF ws # <<>> /\ ws[Len(ws)] = <<>>
    THEN TrimSheet(SubSeq(ws, 1, Len(ws) - 1))
    ELSE ws

\* wb.save(path): the writer skips a cell whose value is None and writes an
\* empty element for a cell whose value is "".
SaveSheet(ws) ==
    TrimSheet([r \in 1..Len(ws) |->
        TrimRow([c \in 1..Len(ws[r]) |->
            IF ws[r][c] = None THEN Absent ELSE ws[r][c]])])

\* load_workbook(path): an empty element is read back as a cell holding None.
LoadSheet(file) ==
    [r \in 1..Len(file) |->
        [c \in 1..Len(file[r]) |-> IF file[r][c] = "" THEN None ELSE file[r][c]]]

-----------------------------------------------------------------------------
(* ReminderManager: the registry of reminder subscriptions, a dict from    *)
(* str(user_id) to a boolean, and reminders.json, the JSON text of it      *)
(* (an object, kept as its set of members: a key and "true" or "false").   *)

\* str(user_id) of a user id, and int(key) of a registry key
RECURSIVE str_int(_)
str_int(n) ==
    IF n < 10 THEN Char("0123456789", n + 1)
    ELSE str_int(n \div 10) \o Char("0123456789", (n % 10) + 1)

RECURSIVE int(_)
int(s) ==
    LET units == (CHOOSE i \in 1..10 : Char("0123456789", i) = Char(s, Len(s))) - 1
    IN  IF Len(s) = 1 THEN units ELSE 10 * int(SubSeq(s, 1, Len(s) - 1)) + units

\* {} and d[k] = v on a dict
EmptyDict == [k \in {} |-> FALSE]
dict_set(d, k, v) == [x \in DOMAIN d \cup {k} |-> IF x = k THEN v ELSE d[x]]

\* json.dump of the registry, and json.load of a text json.dump wrote
json_dump(d) == {<<k, IF d[k] THEN "true" ELSE "false">> : k \in DOMAIN d}
json_load(text) ==
    [k \in {member[1] : member \in text} |->
        \E member \in text : member[1] = k /\ member[2] = "true"]

\* A text that is no JSON: json.load raises
NotJson == {<<"<not json>">>}

\* ReminderManager._load_reminders
_load_reminders(file) ==
    IF file = NoFile THEN EmptyDict
    ELSE IF Content(file) = NotJson THEN EmptyDict
    ELSE json_load(Content(file))

\* ReminderManager._save_reminders: the file after it; where the file cannot
\* be opened for writing the exception is logged and the file stays
_save_reminders(d, file, writable) ==
    IF writable THEN File(json_dump(d)) ELSE file

\* ReminderManager.get_user_reminder
get_user_reminder(d, user_id) ==
    IF str_int(user_id) \in DOMAIN d THEN d[str_int(user_id)] ELSE FALSE

\* ReminderManager.set_user_reminder: the registry and the file after it
set_user_reminder(d, file, user_id, enabled, writable) ==
    [reminders |-> dict_set(d, str_int(user_id), enabled),
     file |-> _save_reminders(dict_set(d, str_int(user_id), enabled), file, writable)]

\* get_all_users_with_reminders without its "if enabled"
get_all_users_any_state(d) == {int(k) : k \in DOMAIN d}

\* ReminderManager.get_all_users_with_reminders (the list as a set)
get_all_users_with_reminders(d) == {int(k) : k \in {x \in DOMAIN d : d[x]}}

\* toggle_user_reminder with new_state = True for any current state
toggle_user_reminder_on(d, file, user_id, writable) ==
    [ret |-> TRUE, after |-> set_user_reminder(d, file, user_id, TRUE, writable)]

\* ReminderManager.toggle_user_reminder: new_state, and what
\* set_user_reminder left
toggle_user_reminder(d, file, user_id, writable) ==
    [ret |-> ~ get_user_reminder(d, user_id),
     after |-> set_user_reminder(d, file, user_id,
                                 ~ get_user_reminder(d, user_id), writable)]

-----------------------------------------------------------------------------
(* TemplateManager: the mirror workbook.  The template file is a sequence   *)
(* of sheets, each a title and its cells; the manager holds the workbook    *)
(* it loaded and the structure _analyze_structure derived from it, one      *)
(* entry per sheet in the order of workbook.sheetnames.  A cell that holds  *)
(* a native date (a datetime object) is written "@" followed by its date.   *)

\* The literals of the source, transliterated
SENTINEL == "pp"
TOTAL == "Itogo:"
TOTAL_PREFIX == "Vsego:"
MARK == <<"Z", "O", "P">>

\* isinstance(value, datetime)
is_datetime(v) == Len(v) > 0 /\ Char(v, 1) = "@"

\* date_patterns and date_formats of _is_date and _normalize_date
date_patterns == <<"dddd-dd-dd", "dd.dd.dddd", "dd/dd/dddd">>
date_formats == <<"%Y-%m-%d", "%d.%m.%Y", "%d/%m/%Y", "%d-%m-%Y">>

\* datetime.strptime(s, fmt) for the formats above: the day, or -1 where it
\* raises ValueError.  The day-first formats are read field by field.
strptime_as(s, fmt) ==
    IF fmt = "%Y-%m-%d" THEN strptime(s)
    ELSE LET sep == Char(fmt, 3)
         IN  IF Len(s) = 10 /\ match_at("dd" \o sep \o "dd" \o sep \o "dddd", s, 1)
             THEN strptime(SubSeq(s, 7, 10) \o "-" \o SubSeq(s, 4, 5) \o "-" \o SubSeq(s, 1, 2))
             ELSE -1

\* for fmt in date_formats: the first format s parses under gives the day
parse_any(s) ==
    LET fmt == first_of({i \in 1..Len(date_formats) : strptime_as(s, date_formats[i]) # -1})
    IN  IF fmt = 0 THEN -1 ELSE strptime_as(s, date_formats[fmt])

\* match.group() of the pattern's first match in s
match_group(pattern, s) ==
    SubSeq(s, re_search(pattern, s), re_search(pattern, s) + Len(pattern) - 1)

\* for pattern in date_patterns: the first pattern that matches s and whose
\* match parses under some format gives the day
extract_any(s) ==
    LET hit == first_of({i \in 1..Len(date_patterns) :
                            /\ re_search(date_patterns[i], s) # 0
                            /\ parse_any(match_group(date_patterns[i], s)) # -1})
    IN  IF hit = 0 THEN -1 ELSE parse_any(match_group(date_patterns[hit], s))

\* _normalize_date on a string: value_str stripped and without " 00:00:00"
normalize_str(value_str) ==
    IF parse_any(value_str) # -1 THEN strftime(parse_any(value_str))
    ELSE IF extract_any(value_str) # -1 THEN strftime(extract_any(value_str))
    ELSE None

\* TemplateManager._normalize_date
_normalize_date(v) ==
    IF ~ Truthy(v) THEN None
    ELSE IF is_datetime(v) THEN SubSeq(v, 2, Len(v))
    ELSE normalize_str(remove(strip(str(v)), " 00:00:00"))

\* TemplateManager._is_date
_is_date(v) ==
    \/ is_datetime(v)
    \/ \E i \in 1..Len(date_patterns) : re_search(date_patterns[i], str(v)) # 0

\* sheet.cell(row=r, column=c) as an access: the cell object it creates
\* where there was none holds None.
Touch(ws, r, c) ==
    IF r \in 1..Len(ws) /\ c \in 1..Len(ws[r]) /\ ws[r][c] # Absent
    THEN ws
    ELSE SetCell(ws, r, c, None)

\* The cells a loop over the rows 1..n of column c has accessed
RECURSIVE TouchRows(_, _, _)
TouchRows(ws, n, c) == IF n = 0 THEN ws ELSE Touch(TouchRows(ws, n - 1, c), n, c)

\* for row in range(1, 10): the first row whose column C holds a date, or 0
anchor_row(ws) ==
    first_of({row \in 1..9 : Truthy(value(ws, row, 3)) /\ _is_date(value(ws, row, 3))})

\* sheet_structure['date_row'] with row 4 instead of row 3 as the fallback
date_row_fallback_4(found) == IF found = 0 THEN 4 ELSE found

\* sheet_structure['date_row'] after lines 181-191
date_row_of(found) == IF found = 0 THEN 3 ELSE found

\* One date of _parse_dates: date_columns[date_value] = the columns from col
add_date(date_columns, date_value, col) ==
    (date_value :> col) @@ date_columns

\* _parse_dates advancing three columns past a cell that is no date
RECURSIVE _parse_dates_skip_3(_, _, _, _)
_parse_dates_skip_3(ws, date_row, col, date_columns) ==
    IF col > max_column(ws) THEN [ws |-> ws, date_columns |-> date_columns]
    ELSE _parse_dates_skip_3(Touch(ws, date_row, col), date_row, col + 3,
             IF Truthy(_normalize_date(value(ws, date_row, col)))
             THEN add_date(date_columns, _normalize_date(value(ws, date_row, col)), col)
             ELSE date_columns)

\* TemplateManager._parse_dates from column col on: date_columns maps a date
\* to its breakfast_col (lunch_col and snack_col are the next two columns).
RECURSIVE _parse_dates(_, _, _, _)
_parse_dates(ws, date_row, col, date_columns) ==
    IF col > max_column(ws) THEN [ws |-> ws, date_columns |-> date_columns]
    ELSE IF Truthy(_normalize_date(value(ws, date_row, col)))
         THEN _parse_dates(Touch(ws, date_row, col), date_row, col + 3,
                           add_date(date_columns, _normalize_date(value(ws, date_row, col)), col))
         ELSE _parse_dates(Touch(ws, date_row, col), date_row, col + 1, date_columns)

\* for row in range(1, 20): the first row whose column A holds the sentinel
sentinel_row(ws) == first_of({row \in 1..19 : value(ws, row, 1) = SENTINEL})

\* sheet_structure['students_start_row'] with row 5 instead of row 4 as the
\* fallback
students_start_row_fallback_5(found) == IF found = 0 THEN 5 ELSE found + 1

\* sheet_structure['students_start_row'] after lines 196-204
students_start_row_of(found) == IF found = 0 THEN 4 ELSE found + 1

\* students[student_name] = row on a dict kept as its items in order
put_student(studs, student_name, row) ==
    IF \E i \in 1..Len(studs) : studs[i].name = student_name
    THEN [i \in 1..Len(studs) |->
             IF studs[i].name = student_name THEN [studs[i] EXCEPT !.row = row]
             ELSE studs[i]]
    ELSE Append(studs, [name |-> student_name, row |-> row])

\* The test of _parse_students on the value of a name cell
is_student_name(v) ==
    /\ Truthy(v)
    /\ strip(str(v)) # ""
    /\ strip(str(v)) # TOTAL
    /\ ~ startswith(strip(str(v)), TOTAL_PREFIX)

\* TemplateManager._parse_students from row on, lastrow being sheet.max_row
\* as the loop header read it
RECURSIVE _parse_students(_, _, _, _)
_parse_students(ws, row, lastrow, studs) ==
    IF row > lastrow THEN [ws |-> ws, students |-> studs]
    ELSE _parse_students(Touch(ws, row, 2), row + 1, lastrow,
                         IF is_student_name(value(ws, row, 2))
                         THEN put_student(studs, strip(str(value(ws, row, 2))), row)
                         ELSE studs)

\* The sheet_structure of a sheet and the sheet as the analysis leaves it
sheet_structure_of(title, date_row, start_row, d, s) ==
    [sheet |-> [title |-> title, ws |-> s.ws],
     structure |-> [class_name |-> title,
                    date_columns |-> d.date_columns,
                    students |-> s.students,
                    date_row |-> date_row,
                    students_start_row |-> start_row]]

\* Lines 196-207 of _analyze_structure: ws is the sheet after the sentinel scan
analyze_students(title, ws, date_row, start_row, d) ==
    sheet_structure_of(title, date_row, start_row, d,
                       _parse_students(ws, start_row, max_row(ws), <<>>))

\* Lines 193-207 of _analyze_structure: d is what _parse_dates left
analyze_sentinel(title, date_row, d) ==
    analyze_students(title,
                     TouchRows(d.ws, IF sentinel_row(d.ws) = 0 THEN 19 ELSE sentinel_row(d.ws), 1),
                     date_row, students_start_row_of(sentinel_row(d.ws)), d)

\* Lines 193-207 of _analyze_structure: ws is the sheet after the date-row scan
analyze_dates(title, ws, date_row) ==
    analyze_sentinel(title, date_row, _parse_dates(ws, date_row, 3, <<>>))

\* The body of the loop of _analyze_structure for one sheet
analyze_sheet(title, ws) ==
    analyze_dates(title,
                  TouchRows(ws, IF anchor_row(ws) = 0 THEN 9 ELSE anchor_row(ws), 3),
                  date_row_of(anchor_row(ws)))

\* load_workbook(self.template_path)
LoadBook(book) == [i \in 1..Len(book) |-> [book[i] EXCEPT !.ws = LoadSheet(@)]]

\* self.workbook.save(self.template_path)
SaveBook(book) == [i \in 1..Len(book) |-> [book[i] EXCEPT !.ws = SaveSheet(@)]]

\* TemplateManager._analyze_structure: every sheet and its structure
_analyze_structure(book) == [i \in 1..Len(book) |-> analyze_sheet(book[i].title, book[i].ws)]

\* self.structure = {} and self.workbook = None
NoStructure == <<>>
NoTemplate == [workbook |-> NoFile, structure |-> NoStructure]

\* The manager after lines 157-158, a being the analysis of the workbook
loaded_template(a) ==
    [workbook |-> File([i \in 1..Len(a) |-> a[i].sheet]),
     structure |-> [i \in 1..Len(a) |-> a[i].structure]]

\* A file that is no workbook (a workbook has a sheet): load_workbook raises.
NotAWorkbook == <<>>

\* The cells that stand for a chart sheet: workbook.sheetnames lists it, and
\* the object workbook[sheet_name] gives for it has no cell method.
CHART == <<<<"<chart>">>>>

\* The sheet at which _analyze_structure raises AttributeError (line 183),
\* or 0 where it returns
raises_at(book) == first_of({i \in 1..Len(book) : book[i].ws = CHART})

\* The workbook object of line 157 as an analysis that raised at sheet n
\* left it: the sheets before n have been walked
half_analyzed(book, n) ==
    [i \in 1..Len(book) |->
        IF i < n THEN analyze_sheet(book[i].title, book[i].ws).sheet ELSE book[i]]

\* TemplateManager.load_template on a manager in state t: the file is
\* missing (line 151), load_workbook raises (line 157), the analysis raises
\* after line 157 has assigned the workbook (line 158), or both succeed.
load_template(t, tmplfile) ==
    IF tmplfile = NoFile \/ Content(tmplfile) = NotAWorkbook
    THEN [ret |-> FALSE, tm |-> t]
    ELSE IF raises_at(LoadBook(Content(tmplfile))) # 0
    THEN [ret |-> FALSE,
          tm |-> [t EXCEPT !.workbook =
                     File(half_analyzed(LoadBook(Content(tmplfile)),
                                        raises_at(LoadBook(Content(tmplfile)))))]]
    ELSE [ret |-> TRUE,
          tm |-> loaded_template(_analyze_structure(LoadBook(Content(tmplfile))))]

\* (None, None) of find_student
NotFound == [sheet_name |-> None, row |-> 0, sheet |-> 0]

\* find_student with the names compared as they are written
same_name_exact(name, student_name) == name = student_name

\* name.strip().lower() == student_name.strip().lower()
same_name(name, student_name) == lower(strip(name)) = lower(strip(student_name))

\* The first item of a sheet's students that carries the name, or 0
student_item(studs, student_name) ==
    first_of({k \in 1..Len(studs) : same_name(studs[k].name, student_name)})

\* TemplateManager.find_student: the sheet's name and the row of the first
\* match in the order of the structure (and the sheet's place in it)
find_student(structure, student_name) ==
    LET i == first_of({k \in 1..Len(structure) :
                          student_item(structure[k].students, student_name) # 0})
    IN  IF i = 0 THEN NotFound
        ELSE [sheet_name |-> structure[i].class_name,
              row |-> structure[i].students[
                          student_item(structure[i].students, student_name)].row,
              sheet |-> i]

\* The marker update_order writes for a meal
template_mark(meals, i) == IF meals[MealType[i]] THEN MARK[i] ELSE ""

\* Lines 344-357 of update_order: the three sheet.cell(...) calls
mark_cells(ws, student_row, col, meals) ==
    SetCell(SetCell(SetCell(ws,
        student_row, col, template_mark(meals, 1)),
        student_row, col + 1, template_mark(meals, 2)),
        student_row, col + 2, template_mark(meals, 3))

\* Lines 341-362 of update_order: book is the workbook with the cells written
updated_template(t, book) ==
    [ret |-> TRUE,
     tm |-> [t EXCEPT !.workbook = File(book)],
     template |-> File(SaveBook(book))]

\* update_found taking column C for a date the sheet's date map lacks
update_found_column_C(t, tmplfile, loc, date_str, meals) ==
    updated_template(t,
        [Content(t.workbook) EXCEPT ![loc.sheet].ws =
            mark_cells(@, loc.row,
                       IF date_str \in DOMAIN t.structure[loc.sheet].date_columns
                       THEN t.structure[loc.sheet].date_columns[date_str]
                       ELSE 3,
                       meals)])

\* self.workbook[sheet_name]: the place of the sheet of that title in the
\* workbook, or 0 where it raises KeyError
sheet_named(book, sheet_name) ==
    first_of({k \in 1..Len(book) : book[k].title = sheet_name})

\* Lines 341-362 of update_order: the sheet is the n-th of the workbook
update_sheet_at(t, tmplfile, n, student_row, col, meals) ==
    IF n = 0 \/ Content(t.workbook)[n].ws = CHART
    THEN [ret |-> FALSE, tm |-> t, template |-> tmplfile]
    ELSE updated_template(t,
             [Content(t.workbook) EXCEPT ![n].ws = mark_cells(@, student_row, col, meals)])

\* Lines 331-362 of update_order, with the student found at loc
update_found(t, tmplfile, loc, date_str, meals) ==
    IF date_str \notin DOMAIN t.structure[loc.sheet].date_columns
    THEN [ret |-> FALSE, tm |-> t, template |-> tmplfile]
    ELSE update_sheet_at(t, tmplfile,
                         sheet_named(Content(t.workbook), loc.sheet_name),
                         loc.row, t.structure[loc.sheet].date_columns[date_str], meals)

\* Lines 323-362 of update_order on a manager that holds a workbook
update_loaded(t, tmplfile, loc, date_str, meals) ==
    IF loc.sheet = 0
    THEN [ret |-> FALSE, tm |-> t, template |-> tmplfile]
    ELSE update_found(t, tmplfile, loc, date_str, meals)

\* Lines 319-321 of update_order: the manager after "if not self.workbook"
ensure_loaded(t, tmplfile) ==
    IF t.workbook = NoFile THEN load_template(t, tmplfile).tm ELSE t

\* update_order on the manager t that lines 319-321 left
update_ensured(t, tmplfile, student_name, date_str, meals) ==
    IF t.workbook = NoFile
    THEN [ret |-> FALSE, tm |-> t, template |-> tmplfile]
    ELSE update_loaded(t, tmplfile, find_student(t.structure, student_name), date_str, meals)

\* TemplateManager.update_order: the manager and the template file after it.
update_order(t, tmplfile, student_name, date_str, meals) ==
    update_ensured(ensure_loaded(t, tmplfile), tmplfile, student_name, date_str, meals)

\* all_dates of _create_or_update_orders_file: the keys of every sheet's
\* date_columns
all_dates(structure) ==
    UNION {DOMAIN structure[i].date_columns : i \in 1..Len(structure)}

-----------------------------------------------------------------------------
(* The environment's files, as small sets of samples *)

Ivanov == [id |-> "101", name |-> "Ivanov", class |-> "5A"]
Petrov == [id |-> "102", name |-> "Petrov", class |-> "5B"]

\* A sheet laid out the way the template's author does: the first row
\* carries the sentinel and the dates, one every three columns, the second
\* the meals of each date, and the students follow, numbered in column A.
RECURSIVE date_cells(_)
date_cells(dates) ==
    IF dates = <<>> THEN <<>> ELSE <<Head(dates), Absent, Absent>> \o date_cells(Tail(dates))

RECURSIVE meal_cells(_)
meal_cells(dates) ==
    IF dates = <<>> THEN <<>> ELSE MARK \o meal_cells(Tail(dates))

Numerals == <<"1", "2", "3", "4">>

Layout(dates, names) ==
    <<<<SENTINEL, "FIO">> \o date_cells(dates),
      <<Absent, Absent>> \o meal_cells(dates)>>
    \o [i \in 1..Len(names) |-> <<Numerals[i], names[i]>>]

\* The template file with one sheet of these dates and students, no meal marked.
Sheet(dates, names) == File(SaveBook(<<[title |-> "5A", ws |-> Layout(dates, names)]>>))

\* What external provisioning may leave in the data directory before a run:
\* students.xlsx and the template file.  Between them the samples have a run
\* without students.xlsx, a run without a template (the 30-working-days
\* fallback), a directory that gains a person, one that loses a person, and a
\* template that gains a date.
OneStudent ==
    [students |-> File(<<Ivanov>>),
     template |-> Sheet(<<strftime(0)>>, <<"Ivanov", "Petrov">>)]
TwoStudents ==
    [students |-> File(<<Ivanov, Petrov>>),
     template |-> Sheet(<<strftime(0), strftime(1)>>, <<"Ivanov">>)]

EnvSamples ==
    {[students |-> NoFile, template |-> NoFile],
     OneStudent,
     TwoStudents,
     [students |-> File(<<Ivanov, Petrov>>), template |-> NoFile]}

\* A directory with two persons of one display name, and a template that
\* lists the name once.
Namesake == [id |-> "102", name |-> "Ivanov", class |-> "5B"]
Namesakes ==
    [students |-> File(<<Ivanov, Namesake>>),
     template |-> Sheet(<<strftime(0)>>, <<"Ivanov">>)]

\* The ids and date strings callers pass to Database.
IdInputs == {"101", "102"}
DateInputs == {strftime(d) : d \in Days}
\* Flag triples that tell the three slots apart: Flags(TRUE, FALSE, TRUE) is
\* unlike its mirror images of any two slots taken together with the others.
Flags(b, l, s) == [m \in Meals |-> IF m = "breakfast" THEN b ELSE IF m = "lunch" THEN l ELSE s]
MealInputs == {Flags(TRUE, FALSE, TRUE), Flags(FALSE, TRUE, FALSE), Flags(TRUE, TRUE, FALSE)}

-----------------------------------------------------------------------------
(* Database._create_or_update_orders_file and the two functions it calls *)

\* f"{date_str}_breakfast", f"{date_str}_lunch", f"{date_str}_snack"
date_headers(date_str) == [i \in 1..3 |-> date_str \o "_" \o MealType[i]]

RECURSIVE all_headers(_)
all_headers(dates) ==
    IF dates = <<>> THEN <<>>
    ELSE date_headers(Head(dates)) \o all_headers(Tail(dates))

\* sorted(list(set(all_dates))): date keys sort as their dates do.
RECURSIVE sorted(_)
sorted(S) ==
    IF S = {} THEN <<>>
    ELSE LET m == CHOOSE x \in S : \A y \in S : strptime(x) <= strptime(y)
         IN  <<m>> \o sorted(S \ {m})

\* The loop "while added < 30", cut at the last day of the model's calendar.
RECURSIVE fallback_dates(_, _)
fallback_dates(date, added) ==
    IF added >= FALLBACK_DAYS \/ date > MaxDay THEN <<>>
    ELSE IF weekday(date) < 5
         THEN <<strftime(date)>> \o fallback_dates(date + 1, added + 1)
         ELSE fallback_dates(date + 1, added)

\* datetime.now(): the host's clock, taken to run on UTC.
datetime_now == utc

_create_new_orders_file(studs, dates) ==
    LET headers == <<"ID", "FIO", "Klass">> \o all_headers(dates)
        student_row(st) ==
            <<st.id, st.name, st.class>> \o [i \in 1..(Len(dates) * 3) |-> ""]
        ws == <<headers>> \o [i \in 1..Len(studs) |-> student_row(studs[i])]
    IN  File(SaveSheet(ws))

\* append_headers writing over the columns from column 4 on
append_headers_from_4(ws, hs) ==
    [PadSheet(ws, 1) EXCEPT ![1] =
        [c \in 1..Max({Len(@), 3 + Len(hs)}) |->
            IF c \in 4..(3 + Len(hs)) THEN hs[c - 3]
            ELSE IF c <= Len(@) THEN @[c] ELSE Absent]]

\* ws.cell(1, ws.max_column + 1, header) for every header
RECURSIVE append_headers(_, _)
append_headers(ws, hs) ==
    IF hs = <<>> THEN ws
    ELSE append_headers(SetCell(ws, 1, max_column(ws) + 1, Head(hs)), Tail(hs))

\* for _ in range(n): ws.cell(row, ws.max_column + 1, "")
RECURSIVE append_empty(_, _, _)
append_empty(ws, row, n) ==
    IF n = 0 THEN ws
    ELSE append_empty(SetCell(ws, row, max_column(ws) + 1, ""), row, n - 1)

\* for row in range(row, last + 1): the inner loop above
RECURSIVE append_empty_rows(_, _, _, _)
append_empty_rows(ws, row, lastrow, n) ==
    IF row > lastrow THEN ws
    ELSE append_empty_rows(append_empty(ws, row, n), row + 1, lastrow, n)

\* for row in range(2, ws.max_row + 1): the loop above, n cells a row
add_empty(ws, n) == append_empty_rows(ws, 2, max_row(ws), n)

\* current_headers, as a set
current_headers(ws) == {value(ws, 1, col) : col \in 1..max_column(ws)}

\* new_dates: the dates that lack one of their three headers
new_dates(headers, dates) ==
    SelectSeq(dates, LAMBDA date_str :
        ~ \A i \in 1..3 : date_headers(date_str)[i] \in headers)

\* "if new_dates:": the headers, then the empty cells of every data row
add_dates(ws, dates) ==
    IF dates # <<>>
    THEN add_empty(append_headers(ws, all_headers(dates)), Len(dates) * 3)
    ELSE ws

update_sheet(ws, dates) == add_dates(ws, new_dates(current_headers(ws), dates))

_update_orders_file(file, studs, dates) ==
    File(SaveSheet(update_sheet(LoadSheet(Content(file)), dates)))

\* The rows of students.xlsx with an id and a name.
student_list(file) == SelectSeq(Content(file), LAMBDA row : Truthy(row.id) /\ Truthy(row.name))

_create_or_update_orders_file(studfile, t, file) ==
    LET studs == student_list(studfile)
        from_template ==
            IF t.workbook # NoFile THEN sorted(all_dates(t.structure)) ELSE <<>>
        dates == IF from_template # <<>> THEN from_template
                 ELSE fallback_dates(DateOf(datetime_now), 0)
    IN  IF file # NoFile
        THEN _update_orders_file(file, studs, dates)
        ELSE _create_new_orders_file(studs, dates)

\* Database._init_files: the template manager and the orders file after it.
_init_files(studfile, tmplfile, file) ==
    IF studfile = NoFile
    THEN [tm |-> NoTemplate, orders |-> file]
    ELSE LET t == load_template(NoTemplate, tmplfile).tm
         IN  [tm |-> t, orders |-> _create_or_update_orders_file(studfile, t, file)]

-----------------------------------------------------------------------------
(* Database: the calls on the orders file *)

\* for r in range(2, ws.max_row + 1): the first row whose id matches, or 0.
student_row_of(ws, student_id) ==
    first_of({r \in 2..max_row(ws) : str(value(ws, r, 1)) = student_id})

\* The branch of the if / elif chain a header takes: 1, 2, 3, or 0 for none.
meal_of_header(header) ==
    IF Contains(str(header), "_breakfast") THEN 1
    ELSE IF Contains(str(header), "_lunch") THEN 2
    ELSE IF Contains(str(header), "_snack") THEN 3
    ELSE 0

\* if header and date_str in str(header)
names_date(header, date_str) == Truthy(header) /\ Contains(str(header), date_str)

\* The three column variables after the loop has seen the columns named.
cols_among(ws, named) ==
    [i \in 1..3 |-> last_of({col \in named : meal_of_header(value(ws, 1, col)) = i})]

\* find_cols without the test of the date: each meal's last column
find_cols_any_date(ws, date_str) ==
    cols_among(ws, 4..max_column(ws))

\* for col in range(4, ws.max_column + 1): breakfast_col, lunch_col and
\* snack_col as the loop leaves them: for each meal the last column whose
\* header names the date and takes that meal's branch, or 0 (None).
find_cols(ws, date_str) ==
    cols_among(ws, {col \in 4..max_column(ws) : names_date(value(ws, 1, col), date_str)})

\* all([breakfast_col, lunch_col, snack_col])
all_cols(cols) == \A i \in 1..3 : cols[i] # 0

_empty_meals == [m \in Meals |-> FALSE]

\* The cell save_order writes for a meal.
meal_mark(meals, i) == IF meals[MealType[i]] THEN CHECK ELSE ""

\* write_meals with the lunch and snack columns taken for each other
write_meals_swapped(ws, student_row, cols, meals) ==
    SetCell(SetCell(SetCell(ws,
        student_row, cols[1], meal_mark(meals, 1)),
        student_row, cols[3], meal_mark(meals, 2)),
        student_row, cols[2], meal_mark(meals, 3))

\* The three ws.cell(row=student_row, column=..., value=...) of save_order
write_meals(ws, student_row, cols, meals) ==
    SetCell(SetCell(SetCell(ws,
        student_row, cols[1], meal_mark(meals, 1)),
        student_row, cols[2], meal_mark(meals, 2)),
        student_row, cols[3], meal_mark(meals, 3))

\* (True, StudentInfo(...)) for the row found, (False, None) for none
found_student(rows, r) == IF r = 0 THEN NoFile ELSE File(rows[r])

\* Database.verify_student: the matching row of students.xlsx, or NoFile.
verify_student(studfile, student_id) ==
    IF studfile = NoFile THEN NoFile
    ELSE found_student(Content(studfile),
                       first_of({r \in 1..Len(Content(studfile)) :
                                    str(Content(studfile)[r].id) = student_id}))

\* Lines 574-582 of save_order, with the row and the columns found
write_found(file, ws, student_row, cols, meals) ==
    IF student_row = 0 THEN [ret |-> FALSE, orders |-> file]
    ELSE IF ~ all_cols(cols) THEN [ret |-> FALSE, orders |-> file]
    ELSE [ret |-> TRUE,
          orders |-> File(SaveSheet(write_meals(ws, student_row, cols, meals)))]

\* Lines 549-582 of save_order, with the workbook loaded
write_loaded(file, ws, student_id, date_str, meals) ==
    write_found(file, ws, student_row_of(ws, student_id), find_cols(ws, date_str), meals)

\* save_order_file with the lock looked at after the workbook was saved
save_order_file_lock_late(file, student_id, date_str, meals) ==
    IF strptime(date_str) = -1 THEN [ret |-> FALSE, orders |-> file]
    ELSE IF file = NoFile THEN [ret |-> FALSE, orders |-> file]
    ELSE [ret |-> ~ is_date_locked(strptime(date_str))
                  /\ write_loaded(file, LoadSheet(Content(file)),
                                  student_id, date_str, meals).ret,
          orders |-> write_loaded(file, LoadSheet(Content(file)),
                                  student_id, date_str, meals).orders]

\* Lines 538-582 of save_order: the lock check and the write to orders.xlsx.
\* Any exception (an unparsable date, a missing file) ends in "return False".
save_order_file(file, student_id, date_str, meals) ==
    IF strptime(date_str) = -1 THEN [ret |-> FALSE, orders |-> file]
    ELSE IF is_date_locked(strptime(date_str)) THEN [ret |-> FALSE, orders |-> file]
    ELSE IF file = NoFile THEN [ret |-> FALSE, orders |-> file]
    ELSE write_loaded(file, LoadSheet(Content(file)), student_id, date_str, meals)

\* save_order returning what update_order returned when it was called
after_orders_strict(w, m) ==
    [ret |-> w.ret /\ m.ret, wrote |-> w.ret, mirrored |-> m.ret,
     orders |-> w.orders, tm |-> m.tm, template |-> m.template]

\* What save_order leaves: w of the orders file, m of the template.  Its
\* result is that of the write to orders.xlsx: "return True" at line 590
\* follows the template's update whatever came of it.
after_orders(w, m) ==
    [ret |-> w.ret, wrote |-> w.ret, mirrored |-> m.ret,
     orders |-> w.orders, tm |-> m.tm, template |-> m.template]

\* mirror_order with the template updated whatever came of the write
mirror_order_whatever(w, student, t, tmplfile, date_str, meals) ==
    IF student # NoFile /\ Truthy(Content(student).name)
    THEN after_orders(w, update_order(t, tmplfile, Content(student).name, date_str, meals))
    ELSE after_orders(w, [ret |-> FALSE, tm |-> t, template |-> tmplfile])

\* Lines 584-590 of save_order: the template follows a successful write for
\* a student the directory knows by name.
mirror_order(w, student, t, tmplfile, date_str, meals) ==
    IF w.ret /\ student # NoFile /\ Truthy(Content(student).name)
    THEN after_orders(w, update_order(t, tmplfile, Content(student).name, date_str, meals))
    ELSE after_orders(w, [ret |-> FALSE, tm |-> t, template |-> tmplfile])

\* Database.save_order: its result and every file and object it leaves changed.
save_order(file, studfile, t, tmplfile, student_id, date_str, meals) ==
    mirror_order(save_order_file(file, student_id, date_str, meals),
                 verify_student(studfile, student_id), t, tmplfile, date_str, meals)

\* The position of a meal in MealType
meal_index(m) == CHOOSE j \in 1..3 : MealType[j] = m

\* read_found without the test "if not student_row": the first data row is
\* read for a person that has none
read_found_any_row(ws, student_row, cols) ==
    IF ~ all_cols(cols) THEN _empty_meals
    ELSE [m \in Meals |->
             value(ws, IF student_row = 0 THEN 2 ELSE student_row,
                   cols[meal_index(m)]) = CHECK]

\* Lines 611-635 of get_student_orders, with the row and the columns found
read_found(ws, student_row, cols) ==
    IF student_row = 0 THEN _empty_meals
    ELSE IF ~ all_cols(cols) THEN _empty_meals
    ELSE [m \in Meals |-> value(ws, student_row, cols[meal_index(m)]) = CHECK]

read_loaded(ws, student_id, date_str) ==
    read_found(ws, student_row_of(ws, student_id), find_cols(ws, date_str))

get_student_orders(file, student_id, date_str) ==
    IF file = NoFile THEN _empty_meals
    ELSE read_loaded(LoadSheet(Content(file)), student_id, date_str)

\* count_found with its row loop started one row late
count_found_from_3(ws, cols) ==
    IF ~ all_cols(cols) THEN [m \in Meals |-> 0]
    ELSE [m \in Meals |->
             Cardinality({row \in 3..max_row(ws) :
                             value(ws, row, cols[meal_index(m)]) = CHECK})]

\* Lines 668-680 of count_for_date, with the columns found
count_found(ws, cols) ==
    IF ~ all_cols(cols) THEN [m \in Meals |-> 0]
    ELSE [m \in Meals |->
             Cardinality({row \in 2..max_row(ws) :
                             value(ws, row, cols[meal_index(m)]) = CHECK})]

count_loaded(ws, date_str) == count_found(ws, find_cols(ws, date_str))

count_for_date(file, date_str) ==
    IF file = NoFile THEN [m \in Meals |-> 0]
    ELSE count_loaded(LoadSheet(Content(file)), date_str)

-----------------------------------------------------------------------------
(* Actions *)

NoCall == [op |-> "none"]

\* What Database() leaves behind: r is what _init_files made of the files.
Constructed(env, r) ==
    /\ started' = started + 1
    /\ students' = env.students
    /\ template' = env.template
    /\ last' = [op |-> "startup", before |-> orders]
    /\ tm' = r.tm
    /\ orders' = r.orders
    /\ reminders' = _load_reminders(reminders_file)
    /\ UNCHANGED <<reminders_file, reminded, utc, calls, user_sessions, conv, screen, queue, sent>>

\* Database() in a fresh process, after the environment has left
\* students.xlsx and the template file as env has them.
Startup(env) ==
    /\ started < MaxStarts
    /\ Constructed(env, _init_files(env.students, env.template, orders))

\* What a save_order call leaves behind: r is its result and its files.
Returned(student_id, date_str, meals, r) ==
    /\ calls' = calls + 1
    /\ orders' = r.orders
    /\ tm' = r.tm
    /\ template' = r.template
    /\ last' = [op |-> "save_order", student_id |-> student_id,
                date_str |-> date_str, meals |-> meals, ret |-> r.ret,
                wrote |-> r.wrote, mirrored |-> r.mirrored,
                locked |-> is_date_locked(strptime(date_str)),
                again |-> /\ last.op = "save_order"
                          /\ last.student_id = student_id
                          /\ last.date_str = date_str]
    /\ UNCHANGED <<reminders, reminders_file, reminded, utc, students, started, user_sessions, conv, screen, queue, sent>>

\* A caller's db.save_order(student_id, date_str, meals)
CallSaveOrder(student_id, date_str, meals) ==
    /\ started > 0
    /\ calls < MaxCalls
    /\ Returned(student_id, date_str, meals,
                save_order(orders, students, tm, template, student_id, date_str, meals))

\* The keys callers ask the queries about: the dates of the model and the
\* year-month prefix they share.
QueryKeys == DateInputs \cup {"2024-03"}

\* A caller's db.get_student_orders(student_id, date_str)
CallGetStudentOrders(student_id, date_str) ==
    /\ started > 0
    /\ last' = [op |-> "get_student_orders", student_id |-> student_id,
                date_str |-> date_str,
                ret |-> get_student_orders(orders, student_id, date_str)]
    /\ UNCHANGED <<reminders, reminders_file, reminded, utc, students, template, orders, started, tm, calls,
                   user_sessions, conv, screen, queue, sent>>

\* A caller's db.count_for_date(date_str)
CallCountForDate(date_str) ==
    /\ started > 0
    /\ last' = [op |-> "count_for_date", date_str |-> date_str,
                ret |-> count_for_date(orders, date_str)]
    /\ UNCHANGED <<reminders, reminders_file, reminded, utc, students, template, orders, started, tm, calls,
                   user_sessions, conv, screen, queue, sent>>

-----------------------------------------------------------------------------
(* TemplateManager called on template files of several layouts *)

\* One sheet: a title row, then the sentinel and the dates in row 2, the
\* first a native date with its three meal columns, the second a string in
\* the last column of the sheet; the names carry a trailing space and
\* capitals; a total row closes the list.
TemplateA ==
    File(<<[title |-> "5A",
            ws |-> <<<<"Menu">>,
                     <<SENTINEL, "FIO", "@2024-03-04", Absent, Absent, "05.03.2024">>,
                     <<Absent, Absent, "Z", "O", "P">>,
                     <<"1", "Ivanov ">>,
                     <<"2", "PETROV">>,
                     <<Absent, TOTAL>>>>]>>)

\* Two sheets.  The first has no date in column C and no sentinel: its date
\* row and its list start are the fallbacks, and two of its names differ in
\* case only.  The second has its date inside a text of row 1 and repeats a
\* name of the first.
TemplateB ==
    File(<<[title |-> "5A",
            ws |-> <<<<"Class 5A">>,
                     <<>>,
                     <<"N", "FIO", "meals", "2024-03-05", "l", "s">>,
                     <<"1", "Ivanov">>,
                     <<"2", "ivanov">>>>],
           [title |-> "5B",
            ws |-> <<<<SENTINEL, "FIO", "Week 2024-03-04", "l", "s">>,
                     <<"1", "Sidorov">>,
                     <<"2", "Ivanov">>>>]>>)

\* Two sheets with a long head: the first has its date in row 9 under a text
\* in column C of row 1, the second has it in row 10, past the rows scanned.
TemplateC ==
    File(<<[title |-> "6A",
            ws |-> <<<<"Title", Absent, "Meals">>, <<>>, <<>>, <<>>, <<>>, <<>>, <<>>, <<>>,
                     <<SENTINEL, "FIO", "2024-03-04", "l", "s">>,
                     <<"1", "Ivanov">>>>],
           [title |-> "6B",
            ws |-> <<<<>>, <<>>, <<>>, <<>>, <<>>, <<>>, <<>>, <<>>, <<>>,
                     <<SENTINEL, "FIO", "2024-03-04", "l", "s">>,
                     <<"1", "Petrov">>>>]>>)

\* One sheet whose anchor cell has the shape of a date and names no day of
\* the calendar (30 February); its next date has another date in its lunch
\* column; its list has a blank row and a total row, and below them a line
\* that is not a student.
TemplateD ==
    File(<<[title |-> "7A",
            ws |-> <<<<SENTINEL, "FIO", "30.02.2024", "l", "s",
                       "2024-03-04", "2024-03-05", "s">>,
                     <<"1", "Ivanov">>,
                     <<>>,
                     <<Absent, TOTAL>>,
                     <<Absent, "Director">>>>]>>)

TemplateSamples == {NoFile, TemplateA, TemplateB, TemplateC, TemplateD}

\* The files an administrator may put in the template's place while the bot
\* runs: none, a file that is no workbook, two of the layouts, and the first
\* layout with a chart sheet after its sheet of cells.
TemplateE == File(Content(TemplateA) \o <<[title |-> "Diagram", ws |-> CHART]>>)

ReloadSamples == {NoFile, File(NotAWorkbook), TemplateA, TemplateB, TemplateE}

\* The names callers look for: stored names in another case and with a
\* space, a prefix of a stored name, and a name no sheet has.
NameInputs == {"Ivanov", "ivanov ", "Ivan", "Petrov", "Smirnov"}

\* The meals callers ask the template for: an order and its withdrawal
TemplateMeals == {Flags(TRUE, FALSE, TRUE), Flags(FALSE, FALSE, FALSE)}

\* What a load_template call leaves behind: r is its result and the manager.
Loaded(r) ==
    /\ tm' = r.tm
    /\ last' = [op |-> "load_template", ret |-> r.ret]
    /\ UNCHANGED <<reminders, reminders_file, reminded, utc, students, template, orders, started, calls,
                   user_sessions, conv, screen, queue, sent>>

\* A caller's template_manager.load_template()
CallLoadTemplate == Loaded(load_template(tm, template))

\* A caller's template_manager.find_student(student_name)
CallFindStudent(student_name) ==
    /\ last' = [op |-> "find_student", student_name |-> student_name,
                ret |-> find_student(tm.structure, student_name)]
    /\ UNCHANGED <<reminders, reminders_file, reminded, utc, students, template, orders, started, tm, calls,
                   user_sessions, conv, screen, queue, sent>>

\* What an update_order call leaves behind: r is its result and its files.
Updated(student_name, date_str, meals, r) ==
    /\ calls' = calls + 1
    /\ tm' = r.tm
    /\ template' = r.template
    /\ last' = [op |-> "update_order", student_name |-> student_name,
                date_str |-> date_str, meals |-> meals, ret |-> r.ret]
    /\ UNCHANGED <<reminders, reminders_file, reminded, utc, students, orders, started,
                   user_sessions, conv, screen, queue, sent>>

\* A caller's template_manager.update_order(student_name, date_str, meals)
CallUpdateOrder(student_name, date_str, meals) ==
    /\ calls < MaxCalls
    /\ Updated(student_name, date_str, meals,
               update_order(tm, template, student_name, date_str, meals))

\* The environment replaces the template file while the process runs.
ReplaceTemplate(file) ==
    /\ file # template
    /\ template' = file
    /\ last' = [op |-> "replace_template"]
    /\ UNCHANGED <<reminders, reminders_file, reminded, utc, students, orders, started, tm, calls,
                   user_sessions, conv, screen, queue, sent>>

-----------------------------------------------------------------------------
(* The clock *)

\* The instants at which the model looks at the clock: the last minute
\* before the deadline and the deadline itself, local time, of each day.
ClockInstants ==
    {d * MinutesPerDay + DEADLINE_TIME + k - TIMEZONE_OFFSET * 60 :
        d \in Days, k \in {-1, 0}}

\* Time is observed from the first construction of Database on.
Tick ==
    /\ started > 0
    /\ \E m \in ClockInstants :
          /\ m > utc
          /\ \A n \in ClockInstants : n > utc => m <= n
          /\ utc' = m
    /\ UNCHANGED <<reminders, reminders_file, reminded, students, template, orders, started, tm, calls, last,
                   user_sessions, conv, screen, queue, sent>>

\* The clock, minute by minute, over the days of the model
Minute ==
    /\ DateOf(get_current_datetime + 1) <= MaxDay
    /\ utc' = utc + 1
    /\ last' = NoCall
    /\ UNCHANGED <<reminders, reminders_file, reminded, students, template, orders, started, tm, calls,
                   user_sessions, conv, screen, queue, sent>>

\* The dates is_date_locked is asked about: the days of the model, the day
\* before them and the day after them.
TargetDates == (-1)..(MaxDay + 1)

\* A caller's is_date_locked(target_date)
CallIsDateLocked(target_date) ==
    /\ last' = [op |-> "is_date_locked", target_date |-> target_date,
                now |-> get_current_datetime, ret |-> is_date_locked(target_date)]
    /\ UNCHANGED <<reminders, reminders_file, reminded, utc, students, template, orders, started, tm, calls,
                   user_sessions, conv, screen, queue, sent>>

-----------------------------------------------------------------------------
(* FoodBot: sessions, the conversation, the screens and the update queue *)

Users == {"u1", "u2"}

\* user_sessions[user_id]: absent, {'state': 'main'}, or a student's session.
NoSession == [state |-> "absent"]
MainSession == [state |-> "main"]
StudentSession(student_id, student_info) ==
    [state |-> "dates", student_id |-> student_id,
     student_name |-> student_info.name, class_name |-> student_info.class]

\* user_id in self.user_sessions and 'student_id' in self.user_sessions[user_id]
has_student_id(session) == session.state = "dates"

\* Database.get_working_dates: the working days from today on, as far as
\* the model's calendar goes.
WORKING_DATES == 10

RECURSIVE working_dates(_, _)
working_dates(current_date, added) ==
    IF added >= WORKING_DATES \/ current_date > MaxDay THEN {}
    ELSE IF weekday(current_date) < 5
         THEN {strftime(current_date)} \cup working_dates(current_date + 1, added + 1)
         ELSE working_dates(current_date + 1, added)

get_working_dates == working_dates(DateOf(get_current_datetime), 0)

\* What the user's last keyboard message offers.
NoScreen == [kind |-> "none"]
KB_main == [kind |-> "main"]
KB_dates(dates_list) == [kind |-> "dates", dates |-> dates_list]
KB_meals(date_str, current_orders) ==
    [kind |-> "meals", date_str |-> date_str,
     is_locked |-> is_date_locked(strptime(date_str)),
     current_orders |-> current_orders]

\* The callback data a screen's buttons carry, split at "|".
Buttons(s) ==
    IF s.kind = "main" THEN {<<"input_id">>}
    ELSE IF s.kind = "dates"
         THEN {<<"date", d>> : d \in s.dates} \cup {<<"back_main">>}
    ELSE IF s.kind = "meals"
         THEN IF s.is_locked THEN {<<"locked">>, <<"back_dates">>}
              ELSE {<<"meal", s.date_str, m>> : m \in Meals} \cup
                   {<<k, s.date_str>> :
                       k \in {"all_day", "none_day", "all_week", "clear_week"}} \cup
                   {<<"back_dates">>}
    ELSE {}

TextInputs == {"101", " 102", "abc"}

\* What a handler leaves behind: the user's session, conversation state
\* and screen, the files, and what came of the request.
Effect(session, state, scr, db, outcome) ==
    [session |-> session, conv |-> state, screen |-> scr,
     orders |-> db.orders, tm |-> db.tm, template |-> db.template,
     outcome |-> outcome]

TheFiles == [orders |-> orders, tm |-> tm, template |-> template, success |-> 0]

\* FoodBot.start
start(u) == Effect(MainSession, conv[u], KB_main, TheFiles, "shown")

\* FoodBot.cancel.  The CommandHandler registered on line 1425 precedes the
\* conversation's fallback in the same group and takes the update, so the
\* END it returns is dropped and the conversation stays where it was.
cancel(u) ==
    Effect(IF user_sessions[u] # NoSession THEN MainSession ELSE user_sessions[u],
           conv[u], KB_main, TheFiles, "shown")

\* input_id_handler taking any numeric id for a student's
input_id_handler_unverified(u, text) ==
    IF conv[u] # "INPUT_ID"
    THEN Effect(user_sessions[u], conv[u], screen[u], TheFiles, "ignored")
    ELSE IF ~ isdigit(strip(text))
    THEN Effect(user_sessions[u], "INPUT_ID", screen[u], TheFiles, "refused")
    ELSE Effect(StudentSession(strip(text), [name |-> "", class |-> ""]), "DATES",
                KB_dates(get_working_dates), TheFiles, "shown")

\* FoodBot.input_id_handler, reached in the conversation state INPUT_ID only
input_id_handler(u, text) ==
    LET student_id == strip(text)
        student_info == verify_student(students, student_id)
    IN  IF conv[u] # "INPUT_ID"
        THEN Effect(user_sessions[u], conv[u], screen[u], TheFiles, "ignored")
        ELSE IF ~ isdigit(student_id)
        THEN Effect(user_sessions[u], "INPUT_ID", screen[u], TheFiles, "refused")
        ELSE IF student_info = NoFile
        THEN Effect(user_sessions[u], "INPUT_ID", screen[u], TheFiles, "refused")
        ELSE Effect(StudentSession(student_id, Content(student_info)), "DATES",
                    KB_dates(get_working_dates), TheFiles, "shown")

\* One round of the loop of all_week and clear_week: r is what save_order
\* returned for the day.
week_count(db, r) ==
    [orders |-> r.orders, tm |-> r.tm, template |-> r.template,
     success |-> db.success + (IF r.ret THEN 1 ELSE 0)]

\* The loop of all_week and clear_week over Monday..Friday
RECURSIVE week_loop(_, _, _, _, _)
week_loop(db, student_id, monday, i, meals) ==
    IF i >= 5 THEN db
    ELSE IF is_date_locked(monday + i)
         THEN week_loop(db, student_id, monday, i + 1, meals)
         ELSE week_loop(week_count(db, save_order(db.orders, students, db.tm, db.template,
                                                  student_id, strftime(monday + i), meals)),
                        student_id, monday, i + 1, meals)

\* The state ConversationHandler keeps after button_handler returned ret
\* (None keeps the state; outside the conversation the result is dropped).
conv_after(u, data, ret) ==
    LET in_conversation ==
            \/ data[1] = "input_id"
            \/ conv[u] \in {"DATES", "MEALS"}
            \/ conv[u] = "INPUT_ID" /\ data[1] = "back_main"
    IN  IF in_conversation /\ ret # None THEN ret ELSE conv[u]

\* orders[meal_type] = not orders[meal_type]
toggle(current, meal_type) == [current EXCEPT ![meal_type] = ~ @]

\* The meal branch starting from the flags the user's keyboard shows
\* instead of reading the file again
read_orders_stale(u, student_id, date_str) ==
    IF screen[u].kind = "meals" /\ screen[u].date_str = date_str
    THEN screen[u].current_orders
    ELSE get_student_orders(orders, student_id, date_str)

\* The flags the meal branch starts from
read_orders(u, student_id, date_str) == get_student_orders(orders, student_id, date_str)

\* The end of the meal, all_day and none_day branches: r is what save_order
\* returned for the flags current.
after_save(u, date_str, current, r) ==
    IF r.ret
    THEN Effect(user_sessions[u], conv[u], KB_meals(date_str, current), r, "saved")
    ELSE Effect(user_sessions[u], conv[u], screen[u], r, "failed")

save_day(u, date_str, current) ==
    after_save(u, date_str, current,
               save_order(orders, students, tm, template,
                          user_sessions[u].student_id, date_str, current))

\* The end of the all_week and clear_week branches: db is what the loop left.
after_week(u, date_str, db) ==
    Effect(user_sessions[u], conv[u],
           KB_meals(date_str,
                    get_student_orders(db.orders, user_sessions[u].student_id, date_str)),
           db, IF db.success > 0 THEN "saved" ELSE "failed")

\* FoodBot.button_handler, after await query.answer()
button_handler(u, data) ==
    LET session == user_sessions[u]
        kind == data[1]
        Stay(ret, outcome) ==
            Effect(session, conv_after(u, data, ret), screen[u], TheFiles, outcome)
        Expired == Effect(session, conv[u], KB_main, TheFiles, "expired")
    IN  IF kind = "input_id"
        THEN Effect(session, "INPUT_ID", NoScreen, TheFiles, "shown")
        ELSE IF kind = "back_main"
        THEN Effect(IF session # NoSession THEN MainSession ELSE session,
                    conv[u], KB_main, TheFiles, "shown")
        ELSE IF kind = "back_dates"
        THEN IF ~ has_student_id(session) THEN Expired
             ELSE Effect(session, conv_after(u, data, "DATES"),
                         KB_dates(get_working_dates), TheFiles, "shown")
        ELSE IF kind = "date"
        THEN IF ~ has_student_id(session) THEN Expired
             ELSE Effect(session, conv_after(u, data, "MEALS"),
                         KB_meals(data[2],
                                  get_student_orders(orders, session.student_id, data[2])),
                         TheFiles, "shown")
        ELSE IF kind = "locked"
        THEN Stay("MEALS", "locked")
        ELSE IF kind = "meal"
        THEN IF ~ has_student_id(session) THEN Stay(None, "ignored")
             ELSE IF is_date_locked(strptime(data[2])) THEN Stay("MEALS", "locked")
             ELSE save_day(u, data[2],
                           toggle(read_orders(u, session.student_id, data[2]), data[3]))
        ELSE IF kind \in {"all_day", "none_day"}
        THEN IF ~ has_student_id(session) THEN Stay(None, "ignored")
             ELSE IF is_date_locked(strptime(data[2])) THEN Stay("MEALS", "locked")
             ELSE save_day(u, data[2], [m \in Meals |-> kind = "all_day"])
        ELSE IF kind \in {"all_week", "clear_week"}
        THEN IF ~ has_student_id(session) THEN Stay(None, "ignored")
             ELSE after_week(u, data[2],
                             week_loop(TheFiles, session.student_id,
                                       strptime(data[2]) - weekday(strptime(data[2])), 0,
                                       [m \in Meals |-> kind = "all_week"]))
        ELSE Stay(None, "ignored")

\* Application.process_update for one update
process_update(upd) ==
    IF upd.type = "command"
    THEN IF upd.data[1] = "cancel" THEN cancel(upd.user) ELSE start(upd.user)
    ELSE IF upd.type = "text" THEN input_id_handler(upd.user, upd.data[1])
    ELSE button_handler(upd.user, upd.data)

\* A user sends /start.
SendStart(u) ==
    /\ sent < MaxUpdates
    /\ Len(queue) < MaxQueue
    /\ sent' = sent + 1
    /\ queue' = Append(queue, [user |-> u, type |-> "command", data |-> <<"start">>,
                               ahead |-> Len(queue)])
    /\ UNCHANGED <<reminders, reminders_file, reminded, utc, students, template, orders, started, tm, calls, last,
                   user_sessions, conv, screen>>

\* A user sends /cancel.
SendCancel(u) ==
    /\ sent < MaxUpdates
    /\ Len(queue) < MaxQueue
    /\ sent' = sent + 1
    /\ queue' = Append(queue, [user |-> u, type |-> "command", data |-> <<"cancel">>,
                               ahead |-> Len(queue)])
    /\ UNCHANGED <<reminders, reminders_file, reminded, utc, students, template, orders, started, tm, calls, last,
                   user_sessions, conv, screen>>

\* A user sends a text message while asked for the id.
SendText(u, text) ==
    /\ sent < MaxUpdates
    /\ Len(queue) < MaxQueue
    /\ conv[u] = "INPUT_ID"
    /\ sent' = sent + 1
    /\ queue' = Append(queue, [user |-> u, type |-> "text", data |-> <<text>>,
                               ahead |-> Len(queue)])
    /\ UNCHANGED <<reminders, reminders_file, reminded, utc, students, template, orders, started, tm, calls, last,
                   user_sessions, conv, screen>>

\* A user presses a button of the keyboard in front of them.
Press(u, data) ==
    /\ sent < MaxUpdates
    /\ Len(queue) < MaxQueue
    /\ data \in Buttons(screen[u])
    /\ sent' = sent + 1
    /\ queue' = Append(queue, [user |-> u, type |-> "callback", data |-> data,
                               ahead |-> Len(queue)])
    /\ UNCHANGED <<reminders, reminders_file, reminded, utc, students, template, orders, started, tm, calls, last,
                   user_sessions, conv, screen>>

\* What handling the update upd leaves behind: e is its handler's effect.
Deliver(upd, e) ==
    /\ queue' = Tail(queue)
    /\ user_sessions' = [user_sessions EXCEPT ![upd.user] = e.session]
    /\ conv' = [conv EXCEPT ![upd.user] = e.conv]
    /\ screen' = [screen EXCEPT ![upd.user] = e.screen]
    /\ orders' = e.orders
    /\ tm' = e.tm
    /\ template' = e.template
    /\ last' = [op |-> "handle", user |-> upd.user, type |-> upd.type,
                data |-> upd.data, ahead |-> upd.ahead,
                session |-> user_sessions[upd.user], outcome |-> e.outcome]
    /\ UNCHANGED <<reminders, reminders_file, reminded, utc, students, started, calls, sent>>

\* The application takes the next update and runs its handler to the end.
Handle ==
    /\ Len(queue) > 0
    /\ Deliver(Head(queue), process_update(Head(queue)))

-----------------------------------------------------------------------------
(* FoodBot.send_reminders, the job that runs every minute, and the calls   *)
(* on the ReminderManager                                                  *)

\* Config.REMINDER_TIME = time(14, 0)
REMINDER_HOUR == 14

\* The Telegram ids of the users
TelegramId == [u \in Users |-> IF u = "u1" THEN 7 ELSE 12]
TelegramIds == {TelegramId[u] : u \in Users}

\* What evaluating an attribute the object does not have raises
AttributeError == "<AttributeError>"

\* The lookup the name promises: the student_id of the session of the user
\* with this id, or None
get_user_student_id_of_session(user_id) ==
    IF \E u \in Users : TelegramId[u] = user_id /\ has_student_id(user_sessions[u])
    THEN user_sessions[CHOOSE u \in Users : TelegramId[u] = user_id].student_id
    ELSE None

\* self.db.get_user_student_id_from_storage(user_id) on line 882: Database
\* defines get_user_student_id(user_id, user_sessions) and no attribute of
\* this name.
get_user_student_id_from_storage(user_id) == AttributeError

\* Database.check_tomorrow_order
check_tomorrow_order(file, student_id) ==
    \E m \in Meals :
        get_student_orders(file, student_id,
                           strftime(DateOf(get_current_datetime + MinutesPerDay)))[m]

\* Lines 885-909 for one user whose student_id line 882 has given: a
\* message is sent
reminder_due(file, studfile, student_id) ==
    /\ Truthy(student_id)
    /\ ~ check_tomorrow_order(file, student_id)
    /\ verify_student(studfile, student_id) # NoFile

\* Lines 880-915 for one user: an exception of the body is logged (line
\* 914) and the loop goes on
reminds(file, studfile, user_id) ==
    IF get_user_student_id_from_storage(user_id) = AttributeError THEN FALSE
    ELSE reminder_due(file, studfile, get_user_student_id_from_storage(user_id))

\* in_reminder_window without the test of the minute
in_reminder_window_whole_hour ==
    TimeOf(get_current_datetime) \div 60 = REMINDER_HOUR

\* Lines 870-873: the local time is in the hour of REMINDER_TIME, minutes
\* 0 to 9
in_reminder_window ==
    /\ TimeOf(get_current_datetime) \div 60 = REMINDER_HOUR
    /\ TimeOf(get_current_datetime) % 60 \in 0..9

\* send_reminders switching a reminder off once it has been looked at
send_reminders_one_shot(d, remfile, file, studfile) ==
    [users |-> IF in_reminder_window
               THEN {user_id \in get_all_users_with_reminders(d) :
                        reminds(file, studfile, user_id)}
               ELSE {},
     inspected |-> IF in_reminder_window THEN get_all_users_with_reminders(d) ELSE {},
     reminders |-> IF in_reminder_window THEN [k \in DOMAIN d |-> FALSE] ELSE d,
     reminders_file |-> IF in_reminder_window
                        THEN File(json_dump([k \in DOMAIN d |-> FALSE]))
                        ELSE remfile,
     orders |-> file]

\* FoodBot.send_reminders: the users it sends a message to, the users its
\* loop looks at, and the stores as it leaves them (it calls nothing that
\* writes)
send_reminders(d, remfile, file, studfile) ==
    [users |-> IF in_reminder_window
               THEN {user_id \in get_all_users_with_reminders(d) :
                        reminds(file, studfile, user_id)}
               ELSE {},
     inspected |-> IF in_reminder_window THEN get_all_users_with_reminders(d) ELSE {},
     reminders |-> d,
     reminders_file |-> remfile,
     orders |-> file]

\* The runs of send_reminders inside the window, and the messages sent to a
\* user, so far on the calendar day of the clock
runs_today ==
    (IF DateOf(reminded.at) = DateOf(get_current_datetime) THEN reminded.runs ELSE 0)
    + (IF in_reminder_window THEN 1 ELSE 0)
messages_today(id) ==
    IF DateOf(reminded.at) = DateOf(get_current_datetime) THEN reminded.messages[id] ELSE 0

\* What a run of send_reminders leaves behind
Scanned(r) ==
    /\ reminded' = [at |-> get_current_datetime, window |-> in_reminder_window,
                    users |-> r.users, inspected |-> r.inspected,
                    runs |-> runs_today,
                    messages |-> [id \in TelegramIds |->
                                     messages_today(id) + IF id \in r.users THEN 1 ELSE 0]]
    /\ reminders' = r.reminders
    /\ reminders_file' = r.reminders_file
    /\ orders' = r.orders
    /\ UNCHANGED <<utc, students, template, started, tm, calls, last,
                   user_sessions, conv, screen, queue, sent>>

\* The job queue runs send_reminders, once in a minute (run_repeating with
\* interval=timedelta(minutes=1))
Scan ==
    /\ reminded.at < get_current_datetime
    /\ Scanned(send_reminders(reminders, reminders_file, orders, students))

\* What a toggle_user_reminder call leaves behind
Toggled(u, r) ==
    /\ reminders' = r.after.reminders
    /\ reminders_file' = r.after.file
    /\ last' = [op |-> "toggle_user_reminder", user |-> u, ret |-> r.ret,
                before |-> get_user_reminder(reminders, TelegramId[u]),
                again |-> last.op = "toggle_user_reminder" /\ last.user = u]
    /\ UNCHANGED <<utc, students, template, orders, started, tm, calls,
                   user_sessions, conv, screen, queue, sent, reminded>>

\* A caller's reminder_manager.toggle_user_reminder(user_id); the file can
\* be written, or opening it for writing fails
CallToggleUserReminder(u, writable) ==
    Toggled(u, toggle_user_reminder(reminders, reminders_file, TelegramId[u], writable))

\* A caller's reminder_manager.get_user_reminder(user_id)
CallGetUserReminder(u) ==
    /\ last' = [op |-> "get_user_reminder", user |-> u,
                ret |-> get_user_reminder(reminders, TelegramId[u])]
    /\ UNCHANGED <<utc, students, template, orders, started, tm, calls,
                   user_sessions, conv, screen, queue, sent,
                   reminders, reminders_file, reminded>>

\* A caller's reminder_manager.get_all_users_with_reminders()
CallGetAllUsersWithReminders ==
    /\ last' = [op |-> "get_all_users_with_reminders",
                ret |-> get_all_users_with_reminders(reminders)]
    /\ UNCHANGED <<utc, students, template, orders, started, tm, calls,
                   user_sessions, conv, screen, queue, sent,
                   reminders, reminders_file, reminded>>

\* ReminderManager(reminders_path) constructed anew from the file
Recreate ==
    /\ reminders' = _load_reminders(reminders_file)
    /\ last' = [op |-> "ReminderManager"]
    /\ UNCHANGED <<utc, students, template, orders, started, tm, calls,
                   user_sessions, conv, screen, queue, sent,
                   reminders_file, reminded>>

\* The instants at which the model looks at the clock around the reminder
\* window: the minute before it, its first and last minutes, the minute
\* after it and the fifth minute of the next hour, local time, of each day.
ScanInstants ==
    {d * MinutesPerDay + REMINDER_HOUR * 60 + k - TIMEZONE_OFFSET * 60 :
        d \in Days, k \in {-1, 0, 9, 10, 65}}

ScanTick ==
    /\ \E m \in ScanInstants :
          /\ m > utc
          /\ \A n \in ScanInstants : n > utc => m <= n
          /\ utc' = m
    /\ UNCHANGED <<students, template, orders, started, tm, calls, last,
                   user_sessions, conv, screen, queue, sent,
                   reminders, reminders_file, reminded>>

-----------------------------------------------------------------------------
(* The specifications *)

\* No scan of send_reminders has run yet
NoScan == [at |-> -MinutesPerDay, window |-> FALSE, users |-> {}, inspected |-> {}, runs |-> 0,
           messages |-> [id \in TelegramIds |-> 0]]

\* A data directory without reminders.json, and the registry made from it
NoReminders ==
    /\ reminders_file = NoFile
    /\ reminders = _load_reminders(NoFile)
    /\ reminded = NoScan

NoBot ==
    /\ NoReminders
    /\ user_sessions = [u \in Users |-> NoSession]
    /\ conv = [u \in Users |-> "END"]
    /\ screen = [u \in Users |-> NoScreen]
    /\ queue = <<>>
    /\ sent = 0

\* Before the first construction of Database
Init ==
    /\ utc = DEADLINE_TIME - 1 - TIMEZONE_OFFSET * 60
    /\ students = NoFile
    /\ template = NoFile
    /\ orders = NoFile
    /\ started = 0
    /\ tm = NoTemplate
    /\ calls = 0
    /\ last = NoCall
    /\ NoBot

\* The Database API under restarts, direct calls and the clock
Next ==
    \/ \E env \in EnvSamples : Startup(env)
    \/ \E student_id \in IdInputs, date_str \in DateInputs, meals \in MealInputs :
          CallSaveOrder(student_id, date_str, meals)
    \/ Tick

Spec == Init /\ [][Next]_vars

\* Where a user may be when the model starts to watch the bot: they have
\* not talked to it yet (Fresh); they have sent /start and pressed input_id
\* (AskedForId); they have then given a student's id and look at the dates
\* (OnDates); or they have also pressed a date and look at its meals, none
\* ordered yet (OnMeals).
Fresh == [session |-> NoSession, conv |-> "END", screen |-> NoScreen]
AskedForId == [session |-> MainSession, conv |-> "INPUT_ID", screen |-> NoScreen]
OnDates(student) ==
    [session |-> StudentSession(student.id, student), conv |-> "DATES",
     screen |-> KB_dates(get_working_dates)]
OnMeals(student, date_str) ==
    [session |-> StudentSession(student.id, student), conv |-> "MEALS",
     screen |-> KB_meals(date_str, _empty_meals)]

\* A data directory whose students.xlsx has gained Petrov since orders.xlsx
\* was created by an earlier run; the template has days of two weeks.
WeekDates == <<strftime(0), strftime(1), strftime(4), strftime(7)>>
Grown ==
    [students |-> File(<<Ivanov, Petrov>>),
     template |-> Sheet(WeekDates, <<"Ivanov", "Petrov">>)]
OrdersBefore == _init_files(File(<<Ivanov>>), Grown.template, NoFile).orders

\* The runs of the bot that are watched: the data directory it is started
\* in, the orders file an earlier run left in it, and where its two users
\* are.
BotStarts ==
    {[env |-> OneStudent, was |-> NoFile, u1 |-> Fresh, u2 |-> Fresh],
     [env |-> OneStudent, was |-> NoFile, u1 |-> AskedForId, u2 |-> OnDates(Ivanov)],
     [env |-> TwoStudents, was |-> NoFile, u1 |-> OnMeals(Ivanov, strftime(0)),
                                           u2 |-> OnMeals(Ivanov, strftime(0))],
     [env |-> TwoStudents, was |-> NoFile, u1 |-> OnMeals(Ivanov, strftime(1)),
                                           u2 |-> OnMeals(Petrov, strftime(1))],
     [env |-> Grown, was |-> OrdersBefore, u1 |-> OnMeals(Ivanov, strftime(0)),
                                           u2 |-> OnMeals(Petrov, strftime(1))]}

\* FoodBot.__init__ in a fresh data directory, and the users' first steps
InitBot ==
    /\ utc = DEADLINE_TIME - 1 - TIMEZONE_OFFSET * 60
    /\ NoReminders
    /\ started = 1
    /\ calls = 0
    /\ last = NoCall
    /\ queue = <<>>
    /\ sent = 0
    /\ \E run \in BotStarts :
          /\ students = run.env.students
          /\ template = run.env.template
          /\ LET r == _init_files(run.env.students, run.env.template, run.was)
             IN  tm = r.tm /\ orders = r.orders
          /\ user_sessions = [u \in Users |-> run[u].session]
          /\ conv = [u \in Users |-> run[u].conv]
          /\ screen = [u \in Users |-> run[u].screen]

\* The running bot: users' updates, their handlers, and the clock
NextBot ==
    \/ \E u \in Users : SendStart(u)
    \/ \E u \in Users : SendCancel(u)
    \/ \E u \in Users, text \in TextInputs : SendText(u, text)
    \/ \E u \in Users : \E data \in Buttons(screen[u]) : Press(u, data)
    \/ Handle
    \/ Tick

SpecBot == InitBot /\ [][NextBot]_vars

\* is_date_locked under the clock: local midnight of day 0 onwards
InitLock ==
    /\ utc = 0 - TIMEZONE_OFFSET * 60
    /\ students = NoFile
    /\ template = NoFile
    /\ orders = NoFile
    /\ started = 0
    /\ tm = NoTemplate
    /\ calls = 0
    /\ last = NoCall
    /\ NoBot

NextLock ==
    \/ Minute
    \/ \E target_date \in TargetDates : CallIsDateLocked(target_date)

SpecLock == InitLock /\ [][NextLock]_vars

\* The same with the clock never stopping: datetime.utcnow() is read anew at
\* every call, and time passes whatever the program does.
SpecLockFair == SpecLock /\ WF_vars(Minute)

\* One run of the process: Database() in a data directory that holds no
\* orders file yet, then writes and queries
InitQuery ==
    /\ utc = DEADLINE_TIME - 1 - TIMEZONE_OFFSET * 60
    /\ started = 1
    /\ calls = 0
    /\ last = NoCall
    /\ NoBot
    /\ \E env \in EnvSamples \cup {Namesakes} :
          /\ students = env.students
          /\ template = env.template
          /\ LET r == _init_files(env.students, env.template, NoFile)
             IN  tm = r.tm /\ orders = r.orders

NextQuery ==
    \/ \E student_id \in IdInputs, date_str \in QueryKeys, meals \in MealInputs :
          CallSaveOrder(student_id, date_str, meals)
    \/ \E student_id \in IdInputs, date_str \in QueryKeys :
          CallGetStudentOrders(student_id, date_str)
    \/ \E date_str \in QueryKeys : CallCountForDate(date_str)

SpecQuery == InitQuery /\ [][NextQuery]_vars

\* TemplateManager(template_path) on a template file of one of the layouts
InitTemplate ==
    /\ utc = DEADLINE_TIME - 1 - TIMEZONE_OFFSET * 60
    /\ students = NoFile
    /\ template \in TemplateSamples
    /\ orders = NoFile
    /\ started = 0
    /\ tm = NoTemplate
    /\ calls = 0
    /\ last = NoCall
    /\ NoBot

NextTemplate ==
    \/ CallLoadTemplate
    \/ \E student_name \in NameInputs : CallFindStudent(student_name)
    \/ \E student_name \in NameInputs, date_str \in DateInputs, meals \in TemplateMeals :
          CallUpdateOrder(student_name, date_str, meals)

SpecTemplate == InitTemplate /\ [][NextTemplate]_vars

\* TemplateManager while the template file is replaced under it: reloads
\* (the refresh_data button) and updates
InitReload ==
    /\ utc = DEADLINE_TIME - 1 - TIMEZONE_OFFSET * 60
    /\ students = NoFile
    /\ template \in ReloadSamples
    /\ orders = NoFile
    /\ started = 0
    /\ tm = NoTemplate
    /\ calls = 0
    /\ last = NoCall
    /\ NoBot

NextReload ==
    \/ CallLoadTemplate
    \/ \E file \in ReloadSamples : ReplaceTemplate(file)
    \/ \E student_name \in {"Ivanov", "Smirnov"}, date_str \in DateInputs :
          CallUpdateOrder(student_name, date_str, Flags(TRUE, FALSE, TRUE))

SpecReload == InitReload /\ [][NextReload]_vars

\* The registry files a run may start with: none, one that has user 7
\* subscribed, and one that is no JSON
RegistrySamples == {NoFile, File(json_dump(dict_set(EmptyDict, "7", TRUE))), File(NotJson)}

\* ReminderManager(reminders_path) on a registry file
InitReminder ==
    /\ utc = REMINDER_HOUR * 60 - 1 - TIMEZONE_OFFSET * 60
    /\ students = NoFile
    /\ template = NoFile
    /\ orders = NoFile
    /\ started = 0
    /\ tm = NoTemplate
    /\ calls = 0
    /\ last = NoCall
    /\ user_sessions = [u \in Users |-> NoSession]
    /\ conv = [u \in Users |-> "END"]
    /\ screen = [u \in Users |-> NoScreen]
    /\ queue = <<>>
    /\ sent = 0
    /\ reminders_file \in RegistrySamples
    /\ reminders = _load_reminders(reminders_file)
    /\ reminded = NoScan

NextReminder ==
    \/ \E u \in Users, writable \in BOOLEAN : CallToggleUserReminder(u, writable)
    \/ \E u \in Users : CallGetUserReminder(u)
    \/ CallGetAllUsersWithReminders
    \/ Recreate

SpecReminder == InitReminder /\ [][NextReminder]_vars

\* The bot in the afternoon of day 0, a minute before the reminder window:
\* user u1 tracks Ivanov, user u2 tracks Petrov or nobody
InitScan ==
    /\ utc = REMINDER_HOUR * 60 - 1 - TIMEZONE_OFFSET * 60
    /\ started = 1
    /\ calls = 0
    /\ last = NoCall
    /\ queue = <<>>
    /\ sent = 0
    /\ students = TwoStudents.students
    /\ template = TwoStudents.template
    /\ LET r == _init_files(TwoStudents.students, TwoStudents.template, NoFile)
       IN  tm = r.tm /\ orders = r.orders
    /\ \E other \in {MainSession, StudentSession(Petrov.id, Petrov)} :
          user_sessions = [u \in Users |->
              IF u = "u1" THEN StudentSession(Ivanov.id, Ivanov) ELSE other]
    /\ conv = [u \in Users |-> "END"]
    /\ screen = [u \in Users |-> NoScreen]
    /\ reminders_file \in RegistrySamples \ {File(NotJson)}
    /\ reminders = _load_reminders(reminders_file)
    /\ reminded = NoScan

\* The orders callers place in the afternoon: for tomorrow, or none
ScanMeals == {Flags(FALSE, TRUE, FALSE), Flags(FALSE, FALSE, FALSE)}

\* The job among the users' requests: subscriptions, orders, and the clock
NextScan ==
    \/ Scan
    \/ ScanTick
    \/ \E u \in Users : CallToggleUserReminder(u, TRUE)
    \/ \E meals \in ScanMeals : CallSaveOrder(Ivanov.id, strftime(1), meals)

SpecScan == InitScan /\ [][NextScan]_vars

-----------------------------------------------------------------------------
(* Vocabulary of the properties *)

Saved == last.op = "save_order"

\* The data rows of the orders file and the person ids they carry.
DataRows(file) == IF file = NoFile THEN {} ELSE 2..max_row(Content(file))
RowId(file, r) == str(value(Content(file), r, 1))
HasRow(file, student_id) == \E r \in DataRows(file) : RowId(file, r) = student_id

\* The columns of the header row that carry a label, and the labels.
Width(file) == max_column(Content(file))
Label(file, c) == value(Content(file), 1, c)

\* The column triples of a DateKey: the columns c where the three labels of
\* the date stand side by side.
Triples(file, date_str) ==
    IF file = NoFile THEN {}
    ELSE {c \in 4..Width(file) :
             \A i \in 1..3 : Label(file, c + i - 1) = date_headers(date_str)[i]}

\* The DateKeys of the calendar that label some column of the header row.
HeaderDates(file) ==
    {k \in 1..Len(DateKeys) :
        \E c \in 4..Width(file), i \in 1..3 :
            Label(file, c) = date_headers(DateKeys[k])[i]}

InDirectory(student_id) == verify_student(students, student_id) # NoFile

-----------------------------------------------------------------------------
(* C1. Round trip: when save_order(id, date, f) returns success, a         *)
(* get_student_orders(id, date) made right after it returns exactly f.     *)
C1_RoundTrip ==
    (Saved /\ last.ret) =>
        get_student_orders(orders, last.student_id, last.date_str) = last.meals

\* A successful save of breakfast and snack without lunch has been read back.
C1_Witness ==
    /\ Saved /\ last.ret
    /\ last.meals = Flags(TRUE, FALSE, TRUE)
    /\ get_student_orders(orders, last.student_id, last.date_str)
           = Flags(TRUE, FALSE, TRUE)

\* The flags of every data row for a date, read cell by cell.
FlagsOf(file, date_str) ==
    [r \in DataRows(file) |->
        [c \in {col \in 4..Width(file) :
                   Truthy(Label(file, col)) /\ Contains(str(Label(file, col)), date_str)}
           |-> value(Content(file), r, c) = CHECK]]

\* The edit lock as the policy states it: the date is in the past, or it is
\* today and the local time has reached the deadline.
PastDeadline(d) ==
    utc + TIMEZONE_OFFSET * 60 >= d * MinutesPerDay + DEADLINE_TIME

CalendarDays == 0..(Len(DateKeys) - 1)

(* C2. Edit-lock gating: no flag cell of a date changes value in a step    *)
(* taken at a moment when the date is locked, whatever screen offered the  *)
(* edit.                                                                   *)
C2_LockGating ==
    [][\A d \in CalendarDays :
          PastDeadline(d) => FlagsOf(orders', strftime(d)) = FlagsOf(orders, strftime(d))
      ]_vars

\* A meal button of a keyboard rendered while the date was open has been
\* handled after the deadline, and refused.
C2_Witness ==
    /\ last.op = "handle"
    /\ last.data[1] = "meal"
    /\ last.outcome = "locked"
    /\ PastDeadline(strptime(last.data[2]))

(* C3. is_date_locked(d) at local date-time now is true for d before       *)
(* now's date, true for now's date from the deadline on (08:00 included),  *)
(* false for now's date before the deadline, false for later dates; its    *)
(* result is a boolean.                                                    *)
C3_LockFunction ==
    last.op = "is_date_locked" =>
        LET today == DateOf(last.now)
            time == TimeOf(last.now)
            d == last.target_date
        IN  /\ last.ret \in BOOLEAN
            /\ d < today => last.ret = TRUE
            /\ (d = today /\ time >= DEADLINE_TIME) => last.ret = TRUE
            /\ (d = today /\ time < DEADLINE_TIME) => last.ret = FALSE
            /\ d > today => last.ret = FALSE

\* is_date_locked has been asked about today at 08:00 sharp and said locked.
C3_Witness ==
    /\ last.op = "is_date_locked"
    /\ last.target_date = DateOf(last.now)
    /\ TimeOf(last.now) = DEADLINE_TIME
    /\ last.ret = TRUE

\* All flags of the orders file, by data row and calendar date.
AllFlags(file) ==
    [r \in DataRows(file), d \in CalendarDays |->
        get_student_orders(file, RowId(file, r), strftime(d))]

\* The flags a handled single-date request asks for, given the flags the
\* file held when its handler began.
Asked(data, held) ==
    IF data[1] = "meal" THEN [held EXCEPT ![data[3]] = ~ @]
    ELSE [m \in Meals |-> data[1] = "all_day"]

(* C4. The load-modify-save of a mutation request is indivisible: when a   *)
(* toggle or a whole-day write is saved, the file afterwards is the file   *)
(* as it was when the handler began with this one request applied to it,   *)
(* so no other request's update is lost, whichever requests were in flight *)
(* together.                                                               *)
C4_NoLostUpdate ==
    [][(/\ Len(queue) > 0
        /\ queue' = Tail(queue)
        /\ last'.op = "handle"
        /\ last'.data[1] \in {"meal", "all_day", "none_day"}
        /\ last'.outcome = "saved")
       =>
       LET student_id == last'.session.student_id
           d == strptime(last'.data[2])
           r == CHOOSE row \in DataRows(orders) : RowId(orders, row) = student_id
       IN  AllFlags(orders') =
              [AllFlags(orders) EXCEPT ![r, d] = Asked(last'.data, @)]
      ]_vars

\* Two toggles of one person and date were in flight together, breakfast
\* ahead of lunch; both have been handled and the file holds both.
C4_Witness ==
    /\ last.op = "handle"
    /\ last.data[1] = "meal" /\ last.data[3] = "lunch"
    /\ last.ahead = 1
    /\ last.outcome = "saved"
    /\ get_student_orders(orders, last.session.student_id, last.data[2])
           = Flags(TRUE, TRUE, FALSE)

(* C5. For every DateKey and slot, count_for_date equals the number of     *)
(* data rows whose person has the slot set according to                   *)
(* get_student_orders.                                                     *)
C5_CountMatchesFlags ==
    \A date_str \in DateInputs :
        LET counts == count_for_date(orders, date_str)
            flags == [r \in DataRows(orders) |->
                         get_student_orders(orders, RowId(orders, r), date_str)]
        IN  \A m \in Meals :
                counts[m] = Cardinality({r \in DataRows(orders) : flags[r][m]})

\* Two persons have ordered the same meal of the same date.
C5_Witness ==
    \E date_str \in DateInputs, m \in Meals :
        count_for_date(orders, date_str)[m] = 2

(* C6. save_order for a person that has a row and an unlocked DateKey     *)
(* succeeds and leaves a column triple for that DateKey, at the right     *)
(* edge of the header when it was not there before.                        *)
C6_GrowthOnWrite ==
    (Saved /\ HasRow(orders, last.student_id) /\ ~ last.locked) =>
        /\ last.ret
        /\ Triples(orders, last.date_str) # {}

(* C7. save_order for a person of the directory on an unlocked date whose *)
(* column triple exists succeeds and leaves a row for that person.         *)
C7_RowCreationOnWrite ==
    (Saved /\ InDirectory(last.student_id) /\ ~ last.locked
           /\ Triples(orders, last.date_str) # {}) =>
        /\ last.ret
        /\ HasRow(orders, last.student_id)

(* C8. save_order returns failure and leaves the orders file as it was    *)
(* whenever the person id is not in the directory, also when the orders   *)
(* file still has a row with that id.                                      *)
C8_PersonNotFound ==
    [][(calls' = calls + 1 /\ ~ InDirectory(last'.student_id)) =>
          (~ last'.ret /\ orders' = orders)]_vars

(* C9. Growth is idempotent: no DateKey ever has more than one column     *)
(* triple, and two writes in succession for the same person and unlocked  *)
(* date leave exactly one column triple of that date.                      *)
C9_AtMostOneTriple ==
    \A k \in 1..Len(DateKeys) : Cardinality(Triples(orders, DateKeys[k])) <= 1

C9_IdempotentGrowth ==
    /\ C9_AtMostOneTriple
    /\ (Saved /\ last.again /\ HasRow(orders, last.student_id) /\ ~ last.locked) =>
           Cardinality(Triples(orders, last.date_str)) = 1

(* C10. The orders table is rectangular: it has 3 + 3 * (number of        *)
(* DateKeys in the header) columns, and every column has a header label.   *)
C10_Rectangular ==
    orders # NoFile =>
        /\ Width(orders) = 3 + 3 * Cardinality(HeaderDates(orders))
        /\ \A c \in 1..Width(orders) : Truthy(Label(orders, c))

-----------------------------------------------------------------------------
\* The name and the class a data row carries.
RowPerson(file, r) ==
    <<value(Content(file), r, 1), value(Content(file), r, 2), value(Content(file), r, 3)>>

\* The columns of the header row that belong to a column triple.
TripleColumns(file) ==
    UNION {{c, c + 1, c + 2} : c \in UNION {Triples(file, DateKeys[k]) : k \in 1..Len(DateKeys)}}

\* The column triples of every DateKey of the calendar.
TripleMap(file) == [k \in 1..Len(DateKeys) |-> Triples(file, DateKeys[k])]

\* The schema with the triples old and the person rows before is kept by
\* the schema with the triples new and the person rows after; columns are
\* the columns the old triples occupy.
KeepsSchema(old, new, columns, before, after) ==
    /\ \A k \in DOMAIN old : old[k] \subseteq new[k]
    /\ \A k \in DOMAIN old :
          old[k] = {} => \A c \in new[k] : \A o \in columns : c > o
    /\ \A r \in DOMAIN before : r \in DOMAIN after /\ after[r] = before[r]

PersonRows(file) == [r \in DataRows(file) |-> RowPerson(file, r)]

(* C11. Append-only schema: in every step of the store (start-up creation  *)
(* or update, save_order) an existing orders file stays; every column      *)
(* triple keeps its columns; every person row keeps its row; and a DateKey *)
(* that gains its triple gains it to the right of every existing triple.   *)
C11_AppendOnly ==
    [][(orders # NoFile /\ orders' # orders) =>
          /\ orders' # NoFile
          /\ KeepsSchema(TripleMap(orders), TripleMap(orders'), TripleColumns(orders),
                         PersonRows(orders), PersonRows(orders'))
      ]_vars

\* A restart has found the orders file of an earlier run and appended the
\* triple of a new date to it, the older triple and the person row in place.
C11_Witness ==
    /\ last.op = "startup"
    /\ last.before # NoFile
    /\ Triples(last.before, strftime(0)) = {4}
    /\ Triples(last.before, strftime(1)) = {}
    /\ Triples(orders, strftime(0)) = {4}
    /\ Triples(orders, strftime(1)) # {}
    /\ HasRow(orders, "101")

-----------------------------------------------------------------------------
\* The person has no row, the DateKey has no column triple, or there is no
\* orders file to read.
NoSuchCell(student_id, date_str) ==
    \/ orders = NoFile
    \/ ~ HasRow(orders, student_id)
    \/ Triples(orders, date_str) = {}

NoSuchDate(date_str) == orders = NoFile \/ Triples(orders, date_str) = {}

_zero_counts == [m \in Meals |-> 0]

\* What a query that has just returned owes its caller on missing data
QueryDefaults ==
    /\ last.op = "get_student_orders" =>
          /\ last.ret \in [Meals -> BOOLEAN]
          /\ (last.date_str \in DateInputs /\ NoSuchCell(last.student_id, last.date_str))
                => last.ret = _empty_meals
    /\ last.op = "count_for_date" =>
          /\ last.ret \in [Meals -> Nat]
          /\ (last.date_str \in DateInputs /\ NoSuchDate(last.date_str))
                => last.ret = _zero_counts

(* C12. A query returns a result and never faults; it returns all-false    *)
(* (get_student_orders) or all-zero (count_for_date) when the person has   *)
(* no row, the DateKey has no column triple or the orders file cannot be   *)
(* read; and the step of a query leaves every store as it was.             *)
C12_QueriesDefault ==
    [][last'.op \in {"get_student_orders", "count_for_date"} =>
          /\ UNCHANGED <<orders, students, template, tm>>
          /\ QueryDefaults'
      ]_vars

\* A person without a row has been asked about, for a date another person
\* has ordered breakfast on, and all-false came back.
C12_Witness ==
    /\ last.op = "get_student_orders"
    /\ orders # NoFile
    /\ ~ HasRow(orders, last.student_id)
    /\ last.date_str \in DateInputs
    /\ count_for_date(orders, last.date_str)["breakfast"] = 1
    /\ last.ret = _empty_meals

(* C13. Exact-match column resolution: a key that is the DateKey of no     *)
(* column triple of the header resolves to no column: get_student_orders   *)
(* returns all-false, count_for_date all-zero, and save_order fails.       *)
C13_ExactMatch ==
    (last.op \in {"get_student_orders", "count_for_date", "save_order"}
        /\ orders # NoFile /\ Triples(orders, last.date_str) = {}) =>
        /\ last.op = "get_student_orders" => last.ret = _empty_meals
        /\ last.op = "count_for_date" => last.ret = _zero_counts
        /\ last.op = "save_order" => ~ last.ret

(* C14. Mirror failures never fail the operation: whenever the write to    *)
(* the orders file inside save_order succeeded, save_order returns success *)
(* whatever came of the mirror update, and the flags written stand.        *)
C14_MirrorNeverFails ==
    (Saved /\ last.wrote) =>
        /\ last.ret
        /\ get_student_orders(orders, last.student_id, last.date_str) = last.meals

\* A write has succeeded while the mirror update did not, and save_order
\* has returned success.
C14_Witness ==
    /\ Saved
    /\ last.wrote
    /\ ~ last.mirrored
    /\ last.ret
    /\ get_student_orders(orders, last.student_id, last.date_str) = last.meals

-----------------------------------------------------------------------------
\* The row and column extent of every sheet of the template file.
Extent(file) ==
    IF file = NoFile THEN <<>>
    ELSE [i \in 1..Len(Content(file)) |->
             <<max_row(Content(file)[i].ws), max_column(Content(file)[i].ws)>>]

(* C16. The mirror never extends its own schema: no load_template and no   *)
(* update_order call changes the row or column extent of a sheet of the    *)
(* mirror file, also when the date cell of a triple lies in the last or    *)
(* next-to-last column of its sheet.                                       *)
C16_NoSchemaGrowth ==
    [][Extent(template') = Extent(template)]_vars

\* A name as find_student compares it: trimmed, letter case ignored.
Norm(name) == lower(strip(name))

\* The student maps' entries: <<i, k>> is the k-th name of the i-th sheet.
Stored(structure) ==
    {<<i, k>> : i \in 1..Len(structure), k \in 1..4} \cap
    {p \in (1..Len(structure)) \X (1..4) : p[2] <= Len(structure[p[1]].students)}

\* The name matches no student, or the date is not in the date map of the
\* group where the student was found.
Unresolved(structure, student_name, date_str) ==
    \/ \A p \in Stored(structure) :
          Norm(structure[p[1]].students[p[2]].name) # Norm(student_name)
    \/ date_str \notin
          DOMAIN structure[find_student(structure, student_name).sheet].date_columns

(* C17. update_order returns failure and leaves the mirror workbook and    *)
(* the mirror file unchanged when the name matches no student of any       *)
(* group, or when the DateKey is not in the date map of the group where    *)
(* the student was found.                                                  *)
C17_UpdateFails ==
    [][(/\ calls' = calls + 1
        /\ last'.op = "update_order"
        /\ Unresolved(tm'.structure, last'.student_name, last'.date_str))
       =>
       /\ ~ last'.ret
       /\ template' = template
       /\ tm.workbook # NoFile => tm' = tm
      ]_vars

\* An update for a student whose sheet lacks the date has failed on a
\* template file that an earlier update has written to.
C17_Witness ==
    /\ last.op = "update_order"
    /\ ~ last.ret
    /\ find_student(tm.structure, last.student_name).sheet # 0
    /\ Unresolved(tm.structure, last.student_name, last.date_str)
    /\ template \notin TemplateSamples

(* C19. find_student(name) returns the sheet and row of a student whose    *)
(* stored name equals the query after trimming and ignoring letter case,   *)
(* and returns not-found exactly when no sheet's student map has such a    *)
(* name; a prefix or substring of a stored name does not match.            *)
C19_FindStudent ==
    last.op = "find_student" =>
        LET matches == {p \in Stored(tm.structure) :
                           Norm(tm.structure[p[1]].students[p[2]].name)
                               = Norm(last.student_name)}
        IN  IF matches = {} THEN last.ret = NotFound
            ELSE \E p \in matches :
                    /\ last.ret.sheet_name = tm.structure[p[1]].class_name
                    /\ last.ret.row = tm.structure[p[1]].students[p[2]].row

\* A query in lower case with a trailing space has found the student, and
\* the template has another sheet that carries the name too.
C19_Witness ==
    /\ last.op = "find_student"
    /\ last.student_name = "ivanov "
    /\ last.ret.sheet_name = "5A"
    /\ last.ret.row = 4
    /\ Len(tm.structure) = 2

\* A value of column C that is recognisable as a date: a native date, or a
\* text with a run of the shape YYYY-MM-DD, DD.MM.YYYY or DD/MM/YYYY.
Recognisable(v) ==
    /\ Truthy(v)
    /\ \/ is_datetime(v)
       \/ \E shape \in {"dddd-dd-dd", "dd.dd.dddd", "dd/dd/dddd"} :
             \E i \in 1..Len(v) : match_at(shape, v, i)

\* The anchor row the detection owes a sheet.
ExpectedAnchor(ws) ==
    IF \E row \in 1..9 : Recognisable(value(ws, row, 3))
    THEN CHOOSE row \in 1..9 :
            /\ Recognisable(value(ws, row, 3))
            /\ \A above \in 1..(row - 1) : ~ Recognisable(value(ws, above, 3))
    ELSE 3

(* C20. Anchor detection: load_template of a template file succeeds, and   *)
(* for every sheet the date row is the first of the rows 1..9 whose        *)
(* column C holds a value recognisable as a date, or row 3 when none of    *)
(* them does.                                                              *)
C20_Anchor ==
    (last.op = "load_template" /\ template # NoFile) =>
        /\ last.ret
        /\ Len(tm.structure) = Len(Content(template))
        /\ \A i \in 1..Len(tm.structure) :
              tm.structure[i].date_row = ExpectedAnchor(LoadSheet(Content(template)[i].ws))

\* A template has been loaded whose first sheet has its date in row 9 and
\* whose second sheet has it in row 10: the first is anchored at row 9, the
\* second at the fallback row.
C20_Witness ==
    /\ last.op = "load_template"
    /\ last.ret
    /\ Len(tm.structure) = 2
    /\ tm.structure[1].date_row = 9
    /\ tm.structure[2].date_row = 3
    /\ \A row \in 1..9 : ~ Recognisable(value(Content(template)[2].ws, row, 3))
    /\ Recognisable(value(Content(template)[2].ws, 10, 3))

-----------------------------------------------------------------------------
\* The persons of the directory.
Directory == IF students = NoFile THEN <<>> ELSE student_list(students)

\* The mirror's cell for a slot agrees with a flag: the slot's marker for
\* true, an empty cell for false.
Agrees(v, flag, i) == IF flag THEN v = MARK[i] ELSE ~ Truthy(v)

\* The mirror's three cells at the row and columns named agree with flags.
CellsAgree(ws, row, col, flags) ==
    \A i \in 1..3 : Agrees(value(ws, row, col + i - 1), flags[MealType[i]], i)

\* The mirror agrees with the orders file on a person found at loc.
PersonAgrees(student_id, loc) ==
    loc.sheet # 0 =>
        \A date_str \in DOMAIN tm.structure[loc.sheet].date_columns :
            CellsAgree(Content(template)[loc.sheet].ws, loc.row,
                       tm.structure[loc.sheet].date_columns[date_str],
                       get_student_orders(orders, student_id, date_str))

(* C18. Mirror agreement: in a run that started with an empty orders file  *)
(* and an unmarked mirror, after any sequence of save_order calls, for     *)
(* every person of the directory whose name resolves in the mirror         *)
(* (namesakes included) and every DateKey of that group's date map, the    *)
(* mirror's three cells hold a marker exactly for the slots that are true  *)
(* in the orders file.                                                     *)
C18_MirrorAgreement ==
    (template # NoFile /\ tm.workbook # NoFile) =>
        \A k \in 1..Len(Directory) :
            PersonAgrees(str(Directory[k].id),
                         find_student(tm.structure, Directory[k].name))

-----------------------------------------------------------------------------
\* The whole value is a date: a native date, or a text that is exactly of
\* the shape YYYY-MM-DD, DD.MM.YYYY or DD/MM/YYYY.
WholeDate(v) ==
    \/ is_datetime(v)
    \/ \E i \in 1..Len(date_patterns) :
          Len(v) = Len(date_patterns[i]) /\ match_at(date_patterns[i], v, 1)

\* The value of column C in the date row of a sheet as it was loaded.
AnchorCell(sheet, date_row) == value(LoadSheet(sheet.ws), date_row, 3)

\* The cell was accepted as the anchor (the date row is no fallback).
Accepted(v) == Truthy(v) /\ _is_date(v)

\* The date map has an entry whose triple starts at column c.
EntryAt(date_columns, c) == \E k \in DOMAIN date_columns : date_columns[k] = c

(* C21. Date recognition in anchor detection is an exact match: a cell     *)
(* accepted as the anchor is a native date or is as a whole of a known     *)
(* date shape, so it normalises to a DateKey and column C of the anchor    *)
(* row contributes an entry to the sheet's date map.                       *)
C21_ExactAnchor ==
    (last.op = "load_template" /\ last.ret) =>
        \A i \in 1..Len(tm.structure) :
            Accepted(AnchorCell(Content(template)[i], tm.structure[i].date_row)) =>
                /\ WholeDate(AnchorCell(Content(template)[i], tm.structure[i].date_row))
                /\ Truthy(_normalize_date(
                       AnchorCell(Content(template)[i], tm.structure[i].date_row)))
                /\ EntryAt(tm.structure[i].date_columns, 3)

-----------------------------------------------------------------------------
\* The cell of row date_row at column c parses to a DateKey.
Parsable(ws, date_row, c) == Truthy(_normalize_date(value(ws, date_row, c)))

\* The columns up to c at which a walk from column C accepts a triple: the
\* parsable cells that no triple accepted to their left covers.
RECURSIVE AcceptedUpTo(_, _, _)
AcceptedUpTo(ws, date_row, c) ==
    IF c < 3 THEN {}
    ELSE IF /\ Parsable(ws, date_row, c)
            /\ \A a \in AcceptedUpTo(ws, date_row, c - 1) : c > a + 2
         THEN AcceptedUpTo(ws, date_row, c - 1) \cup {c}
         ELSE AcceptedUpTo(ws, date_row, c - 1)

\* The date map of a sheet is the one the walk owes it.
TripleWalk(ws, date_row, date_columns, accepted) ==
    /\ \A k \in DOMAIN date_columns :
          /\ date_columns[k] >= 3
          /\ _normalize_date(value(ws, date_row, date_columns[k])) = k
    /\ \A k1, k2 \in DOMAIN date_columns :
          k1 # k2 => \/ date_columns[k1] + 2 < date_columns[k2]
                     \/ date_columns[k2] + 2 < date_columns[k1]
    /\ \A c \in 3..max_column(ws) :
          (Parsable(ws, date_row, c) /\ \A a \in accepted : ~ (a < c /\ c <= a + 2))
              => _normalize_date(value(ws, date_row, c)) \in DOMAIN date_columns

(* C22. Date-triple walk: every entry of a sheet's date map is a triple     *)
(* (c, c+1, c+2) with c >= 3 whose date-row cell at column c parses to the  *)
(* entry's DateKey; triples of distinct DateKeys are disjoint; and every    *)
(* parsable cell of the date row that no triple accepted before it covers   *)
(* has an entry for its DateKey, cells that do not parse being skipped one  *)
(* column at a time.                                                        *)
C22_TripleWalk ==
    (last.op = "load_template" /\ last.ret) =>
        \A i \in 1..Len(tm.structure) :
            TripleWalk(LoadSheet(Content(template)[i].ws),
                       tm.structure[i].date_row,
                       tm.structure[i].date_columns,
                       AcceptedUpTo(LoadSheet(Content(template)[i].ws),
                                    tm.structure[i].date_row,
                                    max_column(LoadSheet(Content(template)[i].ws))))

\* A template has been loaded with a sheet whose column C of the date row
\* holds a text that is no date and whose column D holds a date: the triple
\* of that date starts at column D.
C22_Witness ==
    /\ last.op = "load_template"
    /\ last.ret
    /\ \E i \in 1..Len(tm.structure) :
          /\ Truthy(AnchorCell(Content(template)[i], tm.structure[i].date_row))
          /\ ~ Parsable(LoadSheet(Content(template)[i].ws), tm.structure[i].date_row, 3)
          /\ EntryAt(tm.structure[i].date_columns, 4)

-----------------------------------------------------------------------------
\* The name cell of a row ends the list: it is blank or a total line.
EndsList(v) ==
    \/ ~ Truthy(v)
    \/ strip(str(v)) = ""
    \/ strip(str(v)) = TOTAL
    \/ startswith(strip(str(v)), TOTAL_PREFIX)

\* The first row from start_row on whose name cell ends the list, or the row
\* after the sheet's last.
ListEnd(ws, start_row) ==
    IF \E row \in start_row..max_row(ws) : EndsList(value(ws, row, 2))
    THEN first_of({row \in start_row..max_row(ws) : EndsList(value(ws, row, 2))})
    ELSE max_row(ws) + 1

(* C23. Student-list walk: the student map of a sheet holds the trimmed     *)
(* names of the rows from the list start down to the first row whose name   *)
(* cell is blank or a total line, and no name from below that row.          *)
C23_ListStops ==
    (last.op = "load_template" /\ last.ret) =>
        \A i \in 1..Len(tm.structure) :
            \A k \in 1..Len(tm.structure[i].students) :
                /\ tm.structure[i].students[k].row >= tm.structure[i].students_start_row
                /\ tm.structure[i].students[k].row
                       < ListEnd(LoadSheet(Content(template)[i].ws),
                                 tm.structure[i].students_start_row)

-----------------------------------------------------------------------------
\* The first of the rows 1..19 whose column A holds the sentinel label, or 0.
SentinelAt(ws) ==
    IF \E r \in 1..19 : value(ws, r, 1) = SENTINEL
    THEN CHOOSE r \in 1..19 :
            /\ value(ws, r, 1) = SENTINEL
            /\ \A above \in 1..(r - 1) : value(ws, above, 1) # SENTINEL
    ELSE 0

\* The rows from start_row on whose name cell holds a name (not blank, not a
\* total line).
NameRows(ws, start_row) ==
    {row \in start_row..max_row(ws) : ~ EndsList(value(ws, row, 2))}

\* The list start of a loaded sheet is the row after the sentinel, or row 4
\* without one, and then every name from row 4 down is found, in this sheet
\* or in one before it.
ListStart(ws, i) ==
    /\ SentinelAt(ws) # 0 => tm.structure[i].students_start_row = SentinelAt(ws) + 1
    /\ SentinelAt(ws) = 0 =>
          /\ tm.structure[i].students_start_row = 4
          /\ \A row \in NameRows(ws, 4) :
                /\ \E k \in 1..Len(tm.structure[i].students) :
                      /\ tm.structure[i].students[k].row = row
                      /\ tm.structure[i].students[k].name = strip(str(value(ws, row, 2)))
                /\ find_student(tm.structure, str(value(ws, row, 2))).sheet \in 1..i

(* C24. Sentinel detection with fallback: load_template of a template file  *)
(* succeeds; a sheet whose column A holds the sentinel label at row r of    *)
(* the rows 1..19 has its list start at row r+1; a sheet without it has its *)
(* list start at row 4, and find_student resolves every name at or below    *)
(* row 4 of that sheet.                                                     *)
C24_SentinelFallback ==
    (last.op = "load_template" /\ template # NoFile) =>
        /\ last.ret
        /\ Len(tm.structure) = Len(Content(template))
        /\ \A i \in 1..Len(tm.structure) :
              ListStart(LoadSheet(Content(template)[i].ws), i)

\* A template has been loaded whose first sheet has no sentinel and names in
\* rows 4 and 5, and whose second sheet has the sentinel in row 1.
C24_Witness ==
    /\ last.op = "load_template"
    /\ last.ret
    /\ Len(tm.structure) = 2
    /\ SentinelAt(LoadSheet(Content(template)[1].ws)) = 0
    /\ NameRows(LoadSheet(Content(template)[1].ws), 4) = {4, 5}
    /\ tm.structure[1].students_start_row = 4
    /\ tm.structure[2].students_start_row = 2

-----------------------------------------------------------------------------
(* C25. A failed load_template (file missing, file unreadable, or the      *)
(* structure analysis raising) returns false and leaves the manager as it  *)
(* was before the call: the cached workbook and the derived structure are  *)
(* both the previous ones, never a new workbook with the old structure.    *)
C25_FailedLoadKeepsState ==
    [][(last'.op = "load_template" /\ ~ last'.ret) => tm' = tm]_vars

-----------------------------------------------------------------------------
\* The subscriber's enabled state in a registry (absent counts as false).
Enabled(d, u) == str_int(TelegramId[u]) \in DOMAIN d /\ d[str_int(TelegramId[u])]

(* C26. toggle_user_reminder is its own inverse: a toggle returns the      *)
(* negation of what get_user_reminder gave before it, get_user_reminder    *)
(* right after it gives what it returned, no other subscriber's state      *)
(* changes, and the second of two consecutive toggles of a subscriber      *)
(* restores the state the subscriber had before the first.                 *)
C26_ToggleInverse ==
    [][last'.op = "toggle_user_reminder" =>
          /\ last'.ret = ~ Enabled(reminders, last'.user)
          /\ get_user_reminder(reminders', TelegramId[last'.user]) = last'.ret
          /\ Enabled(reminders', last'.user) = last'.ret
          /\ \A u \in Users \ {last'.user} :
                /\ Enabled(reminders', u) = Enabled(reminders, u)
                /\ get_user_reminder(reminders', TelegramId[u])
                       = get_user_reminder(reminders, TelegramId[u])
          /\ (last.op = "toggle_user_reminder" /\ last.user = last'.user) =>
                Enabled(reminders', last'.user) = last.before
      ]_vars

\* User u2, absent from the registry at first, has been toggled twice in
\* succession and is disabled again, while user u1 is still subscribed.
C26_Witness ==
    /\ last.op = "toggle_user_reminder"
    /\ last.again
    /\ last.user = "u2"
    /\ last.before
    /\ ~ last.ret
    /\ ~ Enabled(reminders, "u2")
    /\ Enabled(reminders, "u1")

-----------------------------------------------------------------------------
\* The ids of the subscribers get_user_reminder reports enabled.
EnabledIds(d) ==
    {TelegramId[u] : u \in {v \in Users : get_user_reminder(d, TelegramId[v])}}

(* C27. After any sequence of toggles get_all_users_with_reminders returns *)
(* exactly the subscriber ids for which get_user_reminder is true, and a   *)
(* subscriber the registry has no entry for is reported disabled and is    *)
(* not in that set.                                                        *)
C27_AllEnabled ==
    /\ get_all_users_with_reminders(reminders) = EnabledIds(reminders)
    /\ last.op = "get_all_users_with_reminders" => last.ret = EnabledIds(reminders)
    /\ \A u \in Users :
          str_int(TelegramId[u]) \notin DOMAIN reminders =>
              /\ ~ get_user_reminder(reminders, TelegramId[u])
              /\ TelegramId[u] \notin get_all_users_with_reminders(reminders)
    /\ last.op = "get_user_reminder" =>
          last.ret = (TelegramId[last.user] \in get_all_users_with_reminders(reminders))

\* get_all_users_with_reminders has returned user 12 alone while the
\* registry holds an entry for user 7, switched off by a toggle.
C27_Witness ==
    /\ last.op = "get_all_users_with_reminders"
    /\ last.ret = {12}
    /\ "7" \in DOMAIN reminders
    /\ ~ reminders["7"]

-----------------------------------------------------------------------------
(* C28. toggle flips and persists: after every toggle_user_reminder call   *)
(* the registry file is the JSON text of the registry in memory, so a      *)
(* ReminderManager made anew from the file reports the same                *)
(* get_user_reminder value for every subscriber; no toggle returns a new   *)
(* state that was not persisted.                                           *)
C28_TogglePersists ==
    [][last'.op = "toggle_user_reminder" =>
          /\ reminders_file' = File(json_dump(reminders'))
          /\ \A u \in Users :
                get_user_reminder(_load_reminders(reminders_file'), TelegramId[u])
                    = get_user_reminder(reminders', TelegramId[u])
      ]_vars

-----------------------------------------------------------------------------
\* The person a subscriber tracks: the student of the subscriber's session.
Tracks(u) == has_student_id(user_sessions[u])

\* The tracked person has a slot set for tomorrow in the orders file.
HasOrderTomorrow(u) ==
    \E m \in Meals :
        get_student_orders(orders, user_sessions[u].student_id,
                           strftime(DateOf(get_current_datetime) + 1))[m]

\* A run of send_reminders has just taken place inside the reminder window.
ScannedInWindow == reminded' # reminded /\ reminded'.window

(* C29. Reminder decision: on a run of send_reminders inside the reminder  *)
(* window a subscriber who tracks a person is sent a reminder if and only  *)
(* if the subscriber is enabled in the registry and that person has no     *)
(* slot set for tomorrow in the orders file.                               *)
C29_ReminderDecision ==
    [][ScannedInWindow =>
          \A u \in Users :
              Tracks(u) =>
                  (TelegramId[u] \in reminded'.users
                      <=> (Enabled(reminders, u) /\ ~ HasOrderTomorrow(u)))
      ]_vars

-----------------------------------------------------------------------------
(* C30. The reminder scan only reads: a run of send_reminders leaves the   *)
(* orders file, the template file and its manager, the directory and the   *)
(* reminder registry with its file as they were; and the orders file it    *)
(* finds is never one between the read and the write of a save_order,      *)
(* every change of the file being the whole effect of one save_order call. *)
C30_ScanOnlyReads ==
    [][/\ reminded' # reminded =>
             /\ orders' = orders
             /\ students' = students
             /\ template' = template
             /\ tm' = tm
             /\ reminders' = reminders
             /\ reminders_file' = reminders_file
       /\ orders' # orders =>
             /\ reminded' = reminded
             /\ last'.op = "save_order"
             /\ orders' = save_order(orders, students, tm, template, last'.student_id,
                                     last'.date_str, last'.meals).orders
      ]_vars

\* send_reminders has run inside the window at this instant, with a
\* subscriber enabled, in a run where a save_order has set a slot for
\* tomorrow.
C30_Witness ==
    /\ reminded.window
    /\ reminded.at = get_current_datetime
    /\ get_all_users_with_reminders(reminders) # {}
    /\ last.op = "save_order"
    /\ last.ret
    /\ check_tomorrow_order(orders, Ivanov.id)

-----------------------------------------------------------------------------
(* C31. Propagation order: within one save_order the mirror is updated     *)
(* only after the write of the same order to the orders file has           *)
(* succeeded, so a changed mirror workbook or file comes with the flags in *)
(* the orders file; and a save_order that returns failure (locked date, no *)
(* row, no column triple, unreadable file) leaves the mirror workbook and  *)
(* the mirror file as they were.                                           *)
C31_MirrorAfterWrite ==
    [][(calls' = calls + 1 /\ last'.op = "save_order") =>
          /\ (tm' # tm \/ template' # template \/ last'.mirrored) =>
                /\ last'.wrote
                /\ get_student_orders(orders', last'.student_id, last'.date_str)
                       = last'.meals
          /\ ~ last'.ret => (tm' = tm /\ template' = template)
      ]_vars

\* A save_order for a locked date has failed for a person the directory
\* knows, whose name and date the mirror lists, after an earlier order had
\* been mirrored into the template file.
C31_Witness ==
    /\ Saved
    /\ ~ last.ret
    /\ last.locked
    /\ InDirectory(last.student_id)
    /\ tm.workbook # NoFile
    /\ ~ Unresolved(tm.structure, Content(verify_student(students, last.student_id)).name,
                    last.date_str)
    /\ template \notin {env.template : env \in EnvSamples}

-----------------------------------------------------------------------------
\* The value a reader finds in a cell of the orders file
Cell(file, r, c) == value(LoadSheet(Content(file)), r, c)

\* The rows and the columns in which either of two orders files has a cell
RowsOf(old, new) == 1..Max({max_row(Content(old)), max_row(Content(new))})
ColumnsOf(old, new) == 1..Max({Width(old), Width(new)})

\* Column c is a flag column of the date in the header of the file.
FlagColumn(file, date_str, c) ==
    \E t \in Triples(file, date_str) : c \in t..(t + 2)

(* C32. Frame of a write: a save_order(id, date, f) that returns success   *)
(* changes no cell of the orders file other than the three flag cells of   *)
(* the date in a row of the person; the header row, the id, name and group *)
(* columns, the flags of every other person and those of every other date  *)
(* read as before.                                                         *)
C32_WriteFrame ==
    [][(calls' = calls + 1 /\ last'.op = "save_order" /\ last'.ret) =>
          /\ orders # NoFile
          /\ orders' # NoFile
          /\ \A r \in RowsOf(orders, orders'), c \in ColumnsOf(orders, orders') :
                Cell(orders', r, c) # Cell(orders, r, c) =>
                   /\ r > 1
                   /\ c > 3
                   /\ RowId(orders, r) = last'.student_id
                   /\ FlagColumn(orders, last'.date_str, c)
      ]_vars

\* A save_order has succeeded and changed the person's flags of the date
\* in a file where a flag of another person or of another date stands set.
C32_Witness ==
    /\ Saved
    /\ last.ret
    /\ \E m \in Meals : last.meals[m]
    /\ \E student_id \in IdInputs, date_str \in DateInputs :
          /\ <<student_id, date_str>> # <<last.student_id, last.date_str>>
          /\ \E m \in Meals : get_student_orders(orders, student_id, date_str)[m]

-----------------------------------------------------------------------------
\* The step handles a meal request of a user with a tracked person for a
\* date that is open when the handler runs.
MealHandled ==
    /\ Len(queue) > 0
    /\ queue' = Tail(queue)
    /\ Head(queue).type = "callback"
    /\ Head(queue).data[1] = "meal"
    /\ has_student_id(user_sessions[Head(queue).user])
    /\ ~ is_date_locked(strptime(Head(queue).data[2]))

\* The tracked person's flags of the request's date, in an orders file
FlagsAsked(file, upd) ==
    get_student_orders(file, user_sessions[upd.user].student_id, upd.data[2])

(* C33. Single-slot toggle: handling a meal request for an open date of a  *)
(* user with a tracked person flips the requested slot of that person's    *)
(* flags of the date and leaves the other two slots as stored (so that two *)
(* such requests for one slot restore the flags).                          *)
C33_SingleSlotToggle ==
    [][MealHandled =>
          FlagsAsked(orders', Head(queue)) =
              toggle(FlagsAsked(orders, Head(queue)), Head(queue).data[3])
      ]_vars

\* The same for the dates that have a column triple in the orders file and
\* persons that have a row in it
C33_ToggleWhereStored ==
    [][(/\ MealHandled
        /\ Triples(orders, Head(queue).data[2]) # {}
        /\ HasRow(orders, user_sessions[Head(queue).user].student_id))
       =>
       FlagsAsked(orders', Head(queue)) =
           toggle(FlagsAsked(orders, Head(queue)), Head(queue).data[3])
      ]_vars

-----------------------------------------------------------------------------
\* The step handles an all_week or clear_week request of a user with a
\* tracked person.
WeekHandled ==
    /\ Len(queue) > 0
    /\ queue' = Tail(queue)
    /\ Head(queue).type = "callback"
    /\ Head(queue).data[1] \in {"all_week", "clear_week"}
    /\ has_student_id(user_sessions[Head(queue).user])

\* Day d is a Monday-to-Friday day of the week of the request's date, not
\* locked when the request is handled, with a column triple in the file.
WeekTarget(upd, d) ==
    /\ d - weekday(d) = strptime(upd.data[2]) - weekday(strptime(upd.data[2]))
    /\ weekday(d) < 5
    /\ ~ is_date_locked(d)
    /\ Triples(orders, strftime(d)) # {}

\* The flags of every person and day after the request: all set or all
\* cleared on the days it targets, as stored everywhere else.
WeekApplied(upd) ==
    \A student_id \in IdInputs, d \in CalendarDays :
        get_student_orders(orders', student_id, strftime(d)) =
            IF student_id = user_sessions[upd.user].student_id /\ WeekTarget(upd, d)
            THEN [m \in Meals |-> upd.data[1] = "all_week"]
            ELSE get_student_orders(orders, student_id, strftime(d))

(* C34. Week operations: handling all_week (clear_week) for a user with a  *)
(* tracked person sets all three flags of that person to true (false) on   *)
(* exactly the Monday-to-Friday days of the selected date's week that are  *)
(* not locked when the request is handled and have a column triple; the    *)
(* flags of the locked days of the week, of every day outside the week and *)
(* of every other person stay as they were.                                *)
C34_WeekOperations ==
    [][WeekHandled => WeekApplied(Head(queue))]_vars

\* The same for the persons that have a row in the orders file
C34_WeekWhereStored ==
    [][(WeekHandled /\ HasRow(orders, user_sessions[Head(queue).user].student_id))
          => WeekApplied(Head(queue))]_vars

-----------------------------------------------------------------------------
\* The step runs the handler of the update at the head of the queue.
Handling == Len(queue) > 0 /\ queue' = Tail(queue)

\* The requests that change orders
Mutations == {"meal", "all_day", "none_day", "all_week", "clear_week"}

MutationAsked(upd) == upd.type = "callback" /\ upd.data[1] \in Mutations

\* The update resets the session of its user: /start, /cancel or back_main.
ResetAsked(upd) ==
    \/ upd.type = "command"
    \/ upd.type = "callback" /\ upd.data[1] = "back_main"

\* The session was made for the id the update's text gives, which the
\* directory holds, with that student's name and class.
ConfirmedBy(session, upd) ==
    /\ upd.type = "text"
    /\ InDirectory(strip(upd.data[1]))
    /\ session = StudentSession(strip(upd.data[1]),
                                Content(verify_student(students, strip(upd.data[1]))))

(* C35. Session gating: a user's session gains a student_id only in the    *)
(* handler of that user's own text input, for the id verify_student found  *)
(* for that input; every write of a button handler to the orders file lies *)
(* in the row of the student_id of the requesting user's session; a        *)
(* mutation request (meal, all_day, none_day, all_week, clear_week) of a    *)
(* user whose session has no student_id writes nothing; and /start,        *)
(* /cancel and back_main leave their user's session without a student_id.  *)
C35_SessionGating ==
    /\ [](\A u \in Users :
             has_student_id(user_sessions[u]) => InDirectory(user_sessions[u].student_id))
    /\ [][/\ ~ Handling => (user_sessions' = user_sessions /\ orders' = orders)
          /\ Handling =>
                /\ \A u \in Users :
                      (/\ has_student_id(user_sessions'[u])
                       /\ user_sessions'[u] # user_sessions[u])
                      => (Head(queue).user = u /\ ConfirmedBy(user_sessions'[u], Head(queue)))
                /\ orders' # orders =>
                      /\ MutationAsked(Head(queue))
                      /\ has_student_id(user_sessions[Head(queue).user])
                      /\ \A r \in RowsOf(orders, orders'), c \in ColumnsOf(orders, orders') :
                            Cell(orders', r, c) # Cell(orders, r, c) =>
                               RowId(orders, r) = user_sessions[Head(queue).user].student_id
                /\ (/\ MutationAsked(Head(queue))
                    /\ ~ has_student_id(user_sessions[Head(queue).user]))
                   => (orders' = orders /\ template' = template /\ tm' = tm)
                /\ ResetAsked(Head(queue)) =>
                      ~ has_student_id(user_sessions'[Head(queue).user])
         ]_vars

\* A mutation request pressed on a meals keyboard has been handled after a
\* /start or /cancel sent ahead of it had reset the session, and was
\* dropped, while the other user tracks a student.
C35_Witness ==
    /\ last.op = "handle"
    /\ last.type = "callback"
    /\ last.data[1] \in Mutations
    /\ last.ahead = 1
    /\ last.session = MainSession
    /\ last.outcome = "ignored"
    /\ \E u \in Users \ {last.user} : has_student_id(user_sessions[u])

-----------------------------------------------------------------------------
\* The dates the clock of the model passes the deadline of: the day before
\* its first day and its days.
PassedDates == (-1)..MaxDay

(* C36. Lock monotonicity: for a fixed target date, while the clock only   *)
(* advances, is_date_locked never goes from true back to false: a date     *)
(* that is locked is locked in every later state; and every date is locked *)
(* eventually.                                                             *)
C36_LockMonotone ==
    /\ [][utc' >= utc /\ \A d \in TargetDates : is_date_locked(d) => is_date_locked(d)']_vars
    /\ \A d \in PassedDates : <>[] is_date_locked(d)

\* Day 0, open when the clock started, is reported locked on a later day.
C36_Witness ==
    /\ last.op = "is_date_locked"
    /\ last.target_date = 0
    /\ DateOf(last.now) > 0
    /\ last.ret = TRUE

-----------------------------------------------------------------------------
\* The step is a run of send_reminders.
Scanning == reminded'.at # reminded.at

\* The local time of the clock is in the reminder hour, minutes 0 to 9.
ReminderMinutes ==
    {REMINDER_HOUR * 60 + k : k \in 0..9}

(* C37. Reminder window: a run of send_reminders looks at the subscribers  *)
(* and sends messages only when the local hour is the reminder hour and    *)
(* the minute is within 0..9, and then it looks at every enabled           *)
(* subscriber; a run at any other time looks at nobody, sends nothing and  *)
(* leaves every store as it was.                                           *)
C37_ReminderWindow ==
    [][Scanning =>
          /\ reminded'.users \subseteq reminded'.inspected
          /\ reminded'.inspected =
                IF TimeOf(get_current_datetime) \in ReminderMinutes
                THEN EnabledIds(reminders)
                ELSE {}
          /\ UNCHANGED <<orders, students, template, tm, reminders, reminders_file>>
      ]_vars

\* send_reminders has run in the minute after the window, with a
\* subscriber enabled, and looked at nobody.
C37_Witness ==
    /\ TimeOf(reminded.at) = REMINDER_HOUR * 60 + 10
    /\ reminded.at = get_current_datetime
    /\ EnabledIds(reminders) # {}
    /\ reminded.inspected = {}
    /\ reminded.users = {}

-----------------------------------------------------------------------------
=============================================================================
